---- MODULE Spec2Model ----
(***************************************************************************)
(* A model of the network performance probe combined-latency-jitter.c:     *)
(* the packet codec, the clock synchronizer, and the client and server     *)
(* exchange loops over the stream and the datagram transport.              *)
(*                                                                         *)
(* Memory is modelled at the level of bytes.  A uint64_t is the tuple of   *)
(* its 8 bytes, least significant first, and its arithmetic is done on     *)
(* those bytes (carry and borrow), so that every value keeps its 64 bits.  *)
(***************************************************************************)
EXTENDS Integers, Sequences, FiniteSets, TLC

(***************************************************************************)
(* Bytes and fixed-width unsigned integers.                                *)
(***************************************************************************)

\* The n bytes, least significant first, of the natural number v.
RECURSIVE LE(_, _)
LE(v, n) ==
    IF n = 0 THEN <<>> ELSE <<v % 256>> \o LE(v \div 256, n - 1)

\* The natural number whose bytes, least significant first, are bs
\* (used only where the value is known to be small).
RECURSIVE Val(_)
Val(bs) ==
    IF bs = <<>> THEN 0 ELSE Head(bs) + 256 * Val(Tail(bs))

\* Byte-wise addition with carry c, the carry out of the last byte dropped:
\* addition modulo 2^(8 * Len(a)).
RECURSIVE AddBytes(_, _, _)
AddBytes(a, b, c) ==
    IF a = <<>> THEN <<>>
    ELSE LET s == Head(a) + Head(b) + c
         IN  <<s % 256>> \o AddBytes(Tail(a), Tail(b), s \div 256)

U64Not(a) == [k \in 1..Len(a) |-> 255 - a[k]]

\* uint64_t a + b and a - b: modulo 2^64.
U64Add(a, b) == AddBytes(a, b, 0)

U64Sub(a, b) == AddBytes(a, U64Not(b), 1)

\* uint64_t a / 2: an unsigned division, the top bit becomes 0.
U64Half(a) ==
    [k \in 1..Len(a) |->
        (a[k] \div 2) + (IF k < Len(a) THEN (a[k + 1] % 2) * 128 ELSE 0)]

\* a < b as unsigned values: the most significant differing byte decides.
U64Lt(a, b) ==
    \E k \in 1..Len(a) :
        /\ a[k] < b[k]
        /\ \A j \in (k + 1)..Len(a) : a[j] = b[j]

\* The bit pattern of a with its sign bit flipped: signed order becomes
\* unsigned order.
FlipSign(a) == [a EXCEPT ![Len(a)] = (a[Len(a)] + 128) % 256]

\* a < b as int64_t values (two's complement).
I64Lt(a, b) == U64Lt(FlipSign(a), FlipSign(b))

\* The int64_t (two's complement, 8 bytes) of a small integer n.
I64(n) == IF n >= 0 THEN LE(n, 8) ELSE U64Sub(LE(0, 8), LE(0 - n, 8))

INT64_MAX == <<255, 255, 255, 255, 255, 255, 255, 127>>

\* 0xFFFFFFFF as it is converted to uint64_t.
HEX_FFFFFFFF == <<255, 255, 255, 255, 0, 0, 0, 0>>

(***************************************************************************)
(* packet_t: the layout of the wire record in memory.                      *)
(***************************************************************************)

\* sizeof(packet_t): five uint64_t, one uint32_t, padded to a multiple of 8.
HeaderSize == 48

\* offsetof(packet_t, payload): the flexible byte array starts right after
\* packet_size, inside the padding of the struct.
PayloadOff == 44

OffSeqNum == 0

OffClientSend == 8

OffServerRecv == 16

OffServerSend == 24

OffClientRecv == 32

OffPacketSize == 40

MIN_PACKET_SIZE == 64

MAX_PACKET_SIZE == 8192

\* The n bytes of byte sequence buf at byte offset off.
Field(buf, off, n) == SubSeq(buf, off + 1, off + n)

\* buf with the bytes of data stored at byte offset off.
Store(buf, off, data) ==
    SubSeq(buf, 1, off) \o data \o SubSeq(buf, off + Len(data) + 1, Len(buf))

\* get_timestamp_usec() read when the local clock shows clock microseconds.
get_timestamp_usec(clock) == LE(clock, 8)

(***************************************************************************)
(* Values of type double, kept as exact fractions <<numerator,             *)
(* denominator>> in lowest terms, the denominator positive.                *)
(***************************************************************************)

RECURSIVE Gcd(_, _)
Gcd(a, b) == IF b = 0 THEN a ELSE Gcd(b, a % b)

Abs(a) == IF a < 0 THEN 0 - a ELSE a

\* The fraction n / d in lowest terms.
Frac(n, d) ==
    LET g == Gcd(Abs(n), Abs(d))
        k == IF d < 0 THEN 0 - g ELSE g
    IN  <<n \div k, d \div k>>

FracAdd(x, y) == Frac(x[1] * y[2] + y[1] * x[2], x[2] * y[2])

FracSub(x, y) == Frac(x[1] * y[2] - y[1] * x[2], x[2] * y[2])

FracMul(x, y) == Frac(x[1] * y[1], x[2] * y[2])

\* x / n for an int n > 0.
FracDivInt(x, n) == Frac(x[1], x[2] * n)

(***************************************************************************)
(* The packet codec.                                                       *)
(***************************************************************************)

Min(a, b) == IF a < b THEN a ELSE b

\* create_packet(packet_size): the bytes of the packet it returns.  The
\* whole allocation is zeroed, packet_size is stored, and payload[i], the
\* byte at offset PayloadOff + i, is set to i % 256 for every
\* i < packet_size - sizeof(packet_t).
create_packet(packet_size) ==
    LET size == IF packet_size < HeaderSize THEN HeaderSize ELSE packet_size
        psz  == LE(size, 4)
    IN  [k \in 1..size |->
            IF k > OffPacketSize /\ k <= OffPacketSize + 4
            THEN psz[k - OffPacketSize]
            ELSE IF k > PayloadOff /\ k - 1 - PayloadOff < size - HeaderSize
                 THEN (k - 1 - PayloadOff) % 256
                 ELSE 0]

\* packet->packet_size as stored in the bytes of buf: an int, negative when
\* the top bit of its last byte is set.
PacketSizeOf(buf) ==
    LET f == Field(buf, OffPacketSize, 4)
    IN  IF f[4] >= 128
        THEN Val(<<f[1], f[2], f[3], f[4] - 128>>) - 2147483647 - 1
        ELSE Val(f)

\* A slip of the loop bound of validate_packet: the last payload byte is
\* not looked at.
validate_packet_SkipsLast(buf) ==
    /\ PacketSizeOf(buf) >= HeaderSize
    /\ \A i \in 0..(PacketSizeOf(buf) - HeaderSize - 2) :
          buf[PayloadOff + i + 1] = i % 256

\* validate_packet(packet) on the bytes of buf.
validate_packet(buf) ==
    /\ PacketSizeOf(buf) >= HeaderSize
    /\ \A i \in 0..(PacketSizeOf(buf) - HeaderSize - 1) :
          buf[PayloadOff + i + 1] = i % 256

\* The client's preparation of the buffer for iteration i at time t:
\* seq_num = i + 1, client_send = t, server_recv = 0, server_send = 0.
ClientPrepare(buf, i, t) ==
    Store(Store(Store(Store(buf, OffSeqNum, LE(i + 1, 8)),
                      OffClientSend, t),
                OffServerRecv, LE(0, 8)),
          OffServerSend, LE(0, 8))

\* A slip of the stamping: server_send is left as received.
ServerStamp_RecvOnly(buf, t_recv, t_send) ==
    Store(buf, OffServerRecv, t_recv)

\* The server's stamping of the packet in its buffer.
ServerStamp(buf, t_recv, t_send) ==
    Store(Store(buf, OffServerRecv, t_recv), OffServerSend, t_send)

\* The server's buffer is create_packet(MAX_PACKET_SIZE).  Its state is kept
\* as the sequence w of the leading bytes written since; the bytes after
\* them are still those of create_packet.
SrvInit == create_packet(MAX_PACKET_SIZE)

\* The first n bytes of the server's buffer.
SrvRead(w, n) ==
    [k \in 1..n |-> IF k <= Len(w) THEN w[k] ELSE SrvInit[k]]

\* The server's buffer after data is received at offset off.
SrvWrite(w, off, data) ==
    LET need == Min(off + Len(data), MAX_PACKET_SIZE)
        base == IF Len(w) >= need THEN w ELSE SrvRead(w, need)
    IN  Store(base, off, SubSeq(data, 1, need - off))

\* int actual_delay_us
ActualDelayUs(c) ==
    IF c.rate_pps > 0 THEN 1000000 \div c.rate_pps ELSE c.delay_ms * 1000

(***************************************************************************)
(* The state.                                                              *)
(***************************************************************************)
VARIABLES
    \* ---- synchronize_clocks (client) ----
    now,          \* the client's clock, in microseconds
    skew,         \* server clock minus client clock (fixed over a run)
    net_d,        \* the nominal one-way network delay of the run
    dflt,         \* what a round of this run does unless it deviates
    devs,         \* how many rounds have deviated from dflt so far
    sync_pc,      \* "loop" | "done"
    sync_i,       \* the loop variable i
    min_rtt,      \* int64_t min_rtt
    best_round,   \* int best_round
    offsets,      \* int64_t offsets[SYNC_ROUNDS], one tuple per slot
    best_offset,  \* the value returned
    hist,         \* history: what happened in each round attempted so far
    \* ---- the client process (run_udp_client) ----
    cfg,          \* config_t: num_packets, packet_size, rate_pps, delay_ms
    running,      \* the global run flag of the client process
    u_pc,         \* "send" (loop head) | "recv" (in recvfrom) | "summary"
    u_i,          \* the loop variable i
    u_packet,     \* the bytes of the one packet buffer
    u_samples,    \* the samples stored so far; packets_received is its length
    \* ---- the datagram network and the server (run_udp_server) ----
    u_req,        \* datagrams on their way to the server
    u_rsp,        \* datagrams on their way to the client
    u_rxq,        \* the client socket's receive queue
    s_buf,        \* the server's packet buffer: the bytes written so far
    \* ---- history of the datagram run ----
    fate,         \* per data packet: what the network did with it
    corrupted,    \* the packets whose echo was corrupted on its way back
    outcome,      \* per iteration of the client: how it ended
    faults,       \* the number of faults so far
    \* ---- the stream clients (run_tcp_client), one per client process ----
    clients,      \* the client processes of the run
    t_pc,         \* "connect" | "send" (loop head) | "recv_hdr" | "recv_rest"
                  \* | "summary" | "exited" | "failed" | "killed" | "undefined"
    t_i,          \* the loop variable i
    t_packet,     \* the bytes of the packet buffer
    t_got,        \* bytes_received
    t_running,    \* the global run flag of the client process
    t_samples,    \* the samples stored so far
    \* ---- the connections ----
    c2s,          \* per client: the bytes sent to the server and not yet read
    s2c,          \* per client: the bytes sent to the client and not yet read
    conn,         \* per client: "none" | "queued" | "accepted" | "closed"
    backlog,      \* the listen queue: connections not yet accepted
    \* ---- the stream server (run_tcp_server) ----
    s_pc,         \* "accept_head" | "in_accept" | "inner_head" | "in_recv_hdr"
                  \* | "in_recv_rest" | "closing" | "cleanup" | "done"
    s_running,    \* the global run flag of the server process
    s_listen,     \* the listening socket: "open" | "closed"
    s_closes,     \* how many times close() was called on the listening socket
    s_cur,        \* client_fd: the client being served, 0 if none
    s_got,        \* bytes_received
    \* ---- history of the stream run ----
    rx_from,      \* per client: bytes the server has read from its connection
    tx_to,        \* per client: bytes the server has sent to it
    t_rx,         \* per client: bytes the client has read from its connection
    t_zero_at,    \* per client: the iteration in which a read returned <= 0
    s_zero_tx,    \* per client: tx_to when a server read returned <= 0, or -1
    \* ---- a packet on its own (create_packet, validate_packet) ----
    c_pc,         \* "start" | "created" | "changed"
    c_size,       \* the packet_size asked for
    c_packet,     \* the bytes of the packet
    c_idx,        \* the payload index of the byte changed
    c_valid,      \* what validate_packet returned for c_packet
    \* ---- the datagram server on its own (run_udp_server) ----
    d_log,        \* per datagram received so far: its sender, its bytes, and
                  \* where to and with what bytes it was answered
    \* ---- the statistics at the end of a client run ----
    st_pc,        \* "start" | "reported"
    st_n,         \* config->num_packets
    st_size,      \* config->packet_size
    st_lat,       \* latencies[0 .. packets_received - 1], in microseconds
    st_report,    \* what the summary prints
    \* ---- the numerator of the throughput on its own ----
    tp_pc,        \* "start" | "computed"
    tp_n,         \* config->num_packets
    tp_received,  \* packets_received
    tp_size,      \* config->packet_size
    tp_bits,      \* packets_received * config->packet_size * 8
    \* ---- the measurements of one echoed packet on their own ----
    lt_pc,        \* "start" | "recorded"
    lt_sync,      \* config->time_sync
    lt_offset,    \* clock_offset
    lt_packet,    \* the bytes of the packet, client_recv stamped
    lt_sample,    \* one_way_latency, rtt and server_processing
    \* ---- the sequence numbers of the data packets on their own ----
    sq_pc,        \* "loop" (loop head) | "prepared" (the packet is sent)
    sq_n,         \* config->num_packets
    sq_i,         \* the loop variable i
    sq_packet,    \* the bytes of the packet buffer
    sq_sync,      \* whether the stream server takes the packet for a sync
    \* ---- the duration of the test in the summary on its own ----
    du_pc,        \* "start" | "computed"
    du_cfg,       \* config->rate_pps and config->delay_ms
    du_rtts,      \* rtts[0 .. packets_received - 1], in microseconds
    du_duration   \* test_duration_sec, an exact fraction

clockVars == <<now, skew>>

syncVars == <<net_d, dflt, devs, sync_pc, sync_i, min_rtt,
              best_round, offsets, best_offset, hist>>

\* What only the datagram client and the network of datagrams use.
udpOnly == <<running, u_pc, u_i, u_packet, u_samples, u_req, u_rsp, u_rxq,
             fate, corrupted, outcome>>

udpVars == <<cfg, running, u_pc, u_i, u_packet, u_samples, u_req, u_rsp,
             u_rxq, s_buf, fate, corrupted, outcome, faults>>

tcpVars == <<clients, t_pc, t_i, t_packet, t_got, t_running, t_samples,
             c2s, s2c, conn, backlog, s_pc, s_running, s_listen, s_closes,
             s_cur, s_got, rx_from, tx_to, t_rx, t_zero_at, s_zero_tx>>

codecVars == <<c_pc, c_size, c_packet, c_idx, c_valid>>

dgramVars == <<d_log>>

\* What the specifications of single functions and of the server on its own
\* use.
statVars == <<st_pc, st_n, st_size, st_lat, st_report>>

tputVars == <<tp_pc, tp_n, tp_received, tp_size, tp_bits>>

latVars == <<lt_pc, lt_sync, lt_offset, lt_packet, lt_sample>>

seqVars == <<sq_pc, sq_n, sq_i, sq_packet, sq_sync>>

durVars == <<du_pc, du_cfg, du_rtts, du_duration>>

asideVars ==
    <<codecVars, dgramVars, statVars, tputVars, latVars, seqVars, durVars>>

vars == <<clockVars, syncVars, udpVars, tcpVars, asideVars>>

\* The parts of the state a specification does not use stay at these values.
SyncIdle ==
    /\ net_d = 0
    /\ dflt = "none"
    /\ devs = 0
    /\ sync_pc = "off"
    /\ sync_i = 0
    /\ min_rtt = <<>>
    /\ best_round = 0
    /\ offsets = <<>>
    /\ best_offset = <<>>
    /\ hist = <<>>

UdpClientIdle ==
    /\ running = TRUE
    /\ u_pc = "off"
    /\ u_i = 0
    /\ u_packet = <<>>
    /\ u_samples = <<>>
    /\ u_req = {}
    /\ u_rsp = {}
    /\ u_rxq = <<>>
    /\ fate = <<>>
    /\ corrupted = {}
    /\ outcome = <<>>

UdpIdle ==
    /\ UdpClientIdle
    /\ cfg = "none"
    /\ s_buf = <<>>
    /\ faults = 0

DgramIdle == d_log = <<>>

StatIdle ==
    /\ st_pc = "off"
    /\ st_n = 0
    /\ st_size = 0
    /\ st_lat = <<>>
    /\ st_report = <<>>

DurIdle ==
    /\ du_pc = "off"
    /\ du_cfg = <<>>
    /\ du_rtts = <<>>
    /\ du_duration = <<>>

SeqIdle ==
    /\ sq_pc = "off"
    /\ sq_n = 0
    /\ sq_i = 0
    /\ sq_packet = <<>>
    /\ sq_sync = FALSE

LatIdle ==
    /\ lt_pc = "off"
    /\ lt_sync = FALSE
    /\ lt_offset = <<>>
    /\ lt_packet = <<>>
    /\ lt_sample = <<>>

TputIdle ==
    /\ tp_pc = "off"
    /\ tp_n = 0
    /\ tp_received = 0
    /\ tp_size = 0
    /\ tp_bits = 0

CodecIdle ==
    /\ c_pc = "off"
    /\ c_size = 0
    /\ c_packet = <<>>
    /\ c_idx = 0
    /\ c_valid = FALSE

TcpIdle ==
    /\ clients = {}
    /\ t_pc = <<>>
    /\ t_i = <<>>
    /\ t_packet = <<>>
    /\ t_got = <<>>
    /\ t_running = <<>>
    /\ t_samples = <<>>
    /\ c2s = <<>>
    /\ s2c = <<>>
    /\ conn = <<>>
    /\ backlog = <<>>
    /\ s_pc = "off"
    /\ s_running = TRUE
    /\ s_listen = "closed"
    /\ s_closes = 0
    /\ s_cur = 0
    /\ s_got = 0
    /\ rx_from = <<>>
    /\ tx_to = <<>>
    /\ t_rx = <<>>
    /\ t_zero_at = <<>>
    /\ s_zero_tx = <<>>

(***************************************************************************)
(* synchronize_clocks.                                                     *)
(***************************************************************************)

SYNC_ROUNDS == 10

\* usleep(50000) between rounds.
SyncPauseUs == 50000

\* How many rounds of one run may deviate from the run's default outcome.
MaxDeviations == 2

\* The clock offsets (server minus client) and the one-way delays tried.
Skews == {0 - 40, 0, 25}

Delays == {1, 3}

\* offsets[] is an automatic array that is never initialized: a slot no round
\* has stored to is indeterminate, and reading it yields any of these.
Indeterminate == <<>>

StackGarbage == {0, 5, 0 - 7}

\* A round's outcome: the send fails, the receive fails, or the echo comes
\* back after d1 microseconds out, p at the server and d2 back.
RoundOutcomes ==
    {[kind |-> "send_fail", d1 |-> 0, d2 |-> 0, p |-> 0],
     [kind |-> "recv_fail", d1 |-> 0, d2 |-> 0, p |-> 0]}
    \cup {[kind |-> "ok", d1 |-> a, d2 |-> b, p |-> 0] : a \in Delays, b \in Delays}

\* memset(&sync_packet, 0, sizeof(packet_t))
ZeroHeader == [k \in 1..HeaderSize |-> 0]

\* The synchronization packet of round i, stamped t1.
SyncPacket(i, t1) ==
    LET seq  == Store(ZeroHeader, OffSeqNum, U64Sub(HEX_FFFFFFFF, LE(i, 8)))
        size == Store(seq, OffPacketSize, LE(HeaderSize, 4))
    IN  Store(size, OffClientSend, t1)

\* The peer's handling of a synchronization packet: both server timestamp
\* fields are stamped and the header is sent back.
SyncEcho(pkt, t2, t3) ==
    Store(Store(pkt, OffServerRecv, t2), OffServerSend, t3)

\* int64_t rtt = (t4 - t1) - (t3 - t2);
SyncRtt(t1, t2, t3, t4) == U64Sub(U64Sub(t4, t1), U64Sub(t3, t2))

\* int64_t offset = ((t2 - t1) + (t3 - t4)) / 2;
SyncOffset(t1, t2, t3, t4) ==
    U64Half(U64Add(U64Sub(t2, t1), U64Sub(t3, t4)))

\* A slip of the comparison: <= in place of <, so a later round wins a tie.
SyncBetter_LessEq(rtt, best) == ~I64Lt(best, rtt)

\* if (rtt < min_rtt)
SyncBetter(rtt, best) == I64Lt(rtt, best)

InitSync ==
    /\ now = 1000
    /\ skew \in Skews
    /\ net_d \in Delays
    /\ dflt \in {o \in RoundOutcomes :
                    o.kind = "ok" => (o.d1 = net_d /\ o.d2 = net_d)}
    /\ devs = 0
    /\ sync_pc = "loop"
    /\ sync_i = 0
    /\ min_rtt = INT64_MAX
    /\ best_round = 0
    /\ offsets = [k \in 1..SYNC_ROUNDS |-> Indeterminate]
    /\ best_offset = I64(0)
    /\ hist = <<>>
    /\ UdpIdle
    /\ TcpIdle
    /\ CodecIdle
    /\ DgramIdle
    /\ StatIdle
    /\ TputIdle
    /\ LatIdle
    /\ SeqIdle
    /\ DurIdle

\* One iteration of the loop of synchronize_clocks.
SyncRound ==
    /\ sync_pc = "loop"
    /\ sync_i < SYNC_ROUNDS
    /\ \E oc \in RoundOutcomes :
        /\ oc # dflt => devs < MaxDeviations
        /\ devs' = IF oc = dflt THEN devs ELSE devs + 1
        /\ LET t1   == get_timestamp_usec(now)
               sent == SyncPacket(sync_i, t1)
               t2c  == now + oc.d1 + skew
               t3c  == t2c + oc.p
               t4c  == now + oc.d1 + oc.p + oc.d2
               echo == SyncEcho(sent, get_timestamp_usec(t2c),
                                get_timestamp_usec(t3c))
               t4   == get_timestamp_usec(t4c)
               t2   == Field(echo, OffServerRecv, 8)
               t3   == Field(echo, OffServerSend, 8)
               rtt  == SyncRtt(t1, t2, t3, t4)
               off  == SyncOffset(t1, t2, t3, t4)
           IN  IF oc.kind = "ok"
               THEN /\ offsets' = [offsets EXCEPT ![sync_i + 1] = off]
                    /\ IF SyncBetter(rtt, min_rtt)
                       THEN min_rtt' = rtt /\ best_round' = sync_i
                       ELSE UNCHANGED <<min_rtt, best_round>>
                    /\ now' = t4c + SyncPauseUs
                    /\ hist' = Append(hist, [ok |-> TRUE, d1 |-> oc.d1,
                                             d2 |-> oc.d2,
                                             rtt |-> oc.d1 + oc.d2,
                                             off |-> off])
               ELSE \* continue: nothing is stored, no pause
                    /\ UNCHANGED <<offsets, min_rtt, best_round, now>>
                    /\ hist' = Append(hist, [ok |-> FALSE, d1 |-> 0, d2 |-> 0,
                                             rtt |-> 0, off |-> I64(0)])
    /\ sync_i' = sync_i + 1
    /\ UNCHANGED <<skew, net_d, dflt, sync_pc, best_offset,
                   udpVars, tcpVars, asideVars>>

\* An iteration whose sync packet, or its echo, is lost in the network: the
\* send succeeds and recv (recvfrom) waits for the echo.  No receive timeout
\* is set on the socket while synchronize_clocks runs (the datagram client
\* sets SO_RCVTIMEO only after it has returned, the stream client never), so
\* the call does not return.
SyncRoundLost ==
    /\ sync_pc = "loop"
    /\ sync_i < SYNC_ROUNDS
    /\ devs < MaxDeviations
    /\ devs' = devs + 1
    /\ sync_pc' = "blocked"
    /\ UNCHANGED <<now, skew, net_d, dflt, sync_i, min_rtt, best_round,
                   offsets, best_offset, hist, udpVars, tcpVars, asideVars>>

\* The loop is over: return offsets[best_round].
SyncReturn ==
    /\ sync_pc = "loop"
    /\ sync_i = SYNC_ROUNDS
    /\ best_offset' \in
          IF offsets[best_round + 1] = Indeterminate
          THEN {I64(g) : g \in StackGarbage}
          ELSE {offsets[best_round + 1]}
    /\ sync_pc' = "done"
    /\ UNCHANGED <<now, skew, net_d, dflt, devs, sync_i, min_rtt, best_round,
                   offsets, hist, udpVars, tcpVars, asideVars>>

NextSync == SyncRound \/ SyncRoundLost \/ SyncReturn

SpecSync == InitSync /\ [][NextSync]_vars

(***************************************************************************)
(* Properties of synchronize_clocks.                                       *)
(***************************************************************************)

\* Every round so far succeeded with the run's delay net_d in both directions.
SyncIdeal ==
    \A k \in 1..Len(hist) :
        hist[k].ok /\ hist[k].d1 = net_d /\ hist[k].d2 = net_d

SyncSomeOk == \E k \in 1..Len(hist) : hist[k].ok

SyncAllFailed == \A k \in 1..Len(hist) : ~hist[k].ok

\* The earliest of the successful rounds of smallest round-trip time, the
\* round-trip time taken as the number (t4 - t1) - (t3 - t2) = d1 + d2.
SyncExpected ==
    CHOOSE b \in 1..Len(hist) :
        /\ hist[b].ok
        /\ \A j \in 1..Len(hist) :
              hist[j].ok =>
                  \/ hist[b].rtt < hist[j].rtt
                  \/ (hist[b].rtt = hist[j].rtt /\ b <= j)

\* C8: with a fixed delay in both directions and a fixed clock offset in all
\* 10 rounds, synchronize_clocks returns exactly that offset, negative
\* offsets included.
C8_FixedDelayReturnsOffset ==
    (sync_pc = "done" /\ SyncIdeal) => best_offset = I64(skew)

\* C9: the offset kept is that of the earliest successful round of smallest
\* round-trip time; failed rounds are skipped, store no offset, and all 10
\* rounds are attempted; the value returned is that round's offset.
C9_MinRttRoundSelected ==
    /\ SyncSomeOk =>
          /\ best_round + 1 = SyncExpected
          /\ offsets[best_round + 1] = hist[SyncExpected].off
    /\ \A k \in 1..Len(hist) :
          ~hist[k].ok => offsets[k] = Indeterminate
    /\ sync_pc = "done" =>
          /\ Len(hist) = SYNC_ROUNDS
          /\ SyncSomeOk => best_offset = hist[SyncExpected].off

\* C9 witness: a finished run in which rounds failed, two successful rounds
\* tie on the smallest round-trip time with different offsets, and the
\* round selected is neither the first nor the last.
C9_Witness ==
    /\ sync_pc = "done"
    /\ ~hist[1].ok
    /\ best_round > 0
    /\ \E j \in 1..Len(hist) :
          /\ j > best_round + 1
          /\ hist[j].ok
          /\ hist[j].rtt = hist[best_round + 1].rtt
          /\ hist[j].off # hist[best_round + 1].off

\* C10: if the send or the receive fails in every one of the 10 rounds,
\* synchronize_clocks returns exactly 0.
C10_AllRoundsFailReturnsZero ==
    (sync_pc = "done" /\ SyncAllFailed) => best_offset = I64(0)

\* C11: clock synchronization is bounded.  synchronize_clocks is never left
\* waiting in a round, also when the round's packet or its echo is lost: it
\* is in its loop, or it has returned after exactly 10 rounds.
C11_SyncBounded ==
    /\ sync_pc \in {"loop", "done"}
    /\ sync_pc = "done" => sync_i = SYNC_ROUNDS /\ Len(hist) = SYNC_ROUNDS

(***************************************************************************)
(* run_udp_client, the datagram network and run_udp_server.                *)
(***************************************************************************)

\* The largest num_packets tried.
MaxPackets == 3

\* How many faults one run may see.  A fault is a datagram lost, an echo
\* corrupted, an echo still on its way when the client's receive times out,
\* a failed sendto, or the stop signal.
MaxFaults == 2

\* tv.tv_sec = 1: the receive timeout of the client socket, in microseconds.
RecvTimeoutUs == 1000000

\* The configurations tried: the default pacing, the smallest packet size.
Configs ==
    {[num_packets |-> n, packet_size |-> MIN_PACKET_SIZE, rate_pps |-> 10,
      delay_ms |-> 100, time_sync |-> FALSE] : n \in 1..MaxPackets}

\* The byte offsets at which the network may corrupt a datagram: the first
\* and the last payload byte of a packet of the smallest size.
CorruptOffsets == {PayloadOff, MIN_PACKET_SIZE - 5}

\* data with the byte at offset off changed (to its complement).
Corrupt(data, off) == Store(data, off, <<255 - data[off + 1]>>)

InitUdp ==
    /\ now = 1000
    /\ skew = 0
    /\ SyncIdle
    /\ TcpIdle
    /\ CodecIdle
    /\ DgramIdle
    /\ StatIdle
    /\ TputIdle
    /\ LatIdle
    /\ SeqIdle
    /\ DurIdle
    /\ cfg \in Configs
    /\ running = TRUE
    /\ u_pc = "send"
    /\ u_i = 0
    /\ u_packet = create_packet(cfg.packet_size)
    /\ u_samples = <<>>
    /\ u_req = {}
    /\ u_rsp = {}
    /\ u_rxq = <<>>
    /\ s_buf = <<>>
    /\ fate = [k \in 1..cfg.num_packets |-> "none"]
    /\ corrupted = {}
    /\ outcome = [k \in 1..cfg.num_packets |-> "none"]
    /\ faults = 0

\* Loop head and lines 860-872: prepare the packet and sendto it.  A failed
\* sendto continues with the next iteration.
UdpClientSend ==
    /\ u_pc = "send"
    /\ u_i < cfg.num_packets
    /\ running
    /\ LET pkt == ClientPrepare(u_packet, u_i, get_timestamp_usec(now))
       IN  /\ u_packet' = pkt
           /\ \/ /\ u_req' = u_req \cup
                       {[id |-> u_i + 1,
                         bytes |-> SubSeq(pkt, 1, PacketSizeOf(pkt))]}
                 /\ fate' = [fate EXCEPT ![u_i + 1] = "flying"]
                 /\ u_pc' = "recv"
                 /\ UNCHANGED <<u_i, outcome, faults>>
              \/ /\ faults < MaxFaults
                 /\ faults' = faults + 1
                 /\ outcome' = [outcome EXCEPT ![u_i + 1] = "send_fail"]
                 /\ u_i' = u_i + 1
                 /\ UNCHANGED <<u_req, fate, u_pc>>
    /\ UNCHANGED <<clockVars, syncVars, tcpVars, asideVars,
                   cfg, running, u_samples, u_rsp, u_rxq,
                   s_buf, corrupted>>

\* Whether the data packet sent as number id, or its echo, is in the network.
OnItsWay(id) == \E r \in u_req \cup u_rsp : r.id = id

\* A slip of the timeout branch: break in place of continue.
UdpClientTimeout_Break ==
    /\ u_pc = "recv"
    /\ u_rxq = <<>>
    /\ IF OnItsWay(u_i + 1)
       THEN faults < MaxFaults /\ faults' = faults + 1
       ELSE faults' = faults
    /\ outcome' = [outcome EXCEPT ![u_i + 1] = "timeout"]
    /\ u_pc' = "summary"
    /\ now' = now + RecvTimeoutUs
    /\ UNCHANGED <<skew, syncVars, tcpVars, asideVars,
                   cfg, running, u_i, u_packet, u_samples,
                   u_req, u_rsp, u_rxq, s_buf, fate, corrupted>>

\* Lines 875-879: recvfrom returns nothing within the timeout; the loop
\* continues with the next iteration.
UdpClientTimeout ==
    /\ u_pc = "recv"
    /\ u_rxq = <<>>
    /\ IF OnItsWay(u_i + 1)
       THEN faults < MaxFaults /\ faults' = faults + 1
       ELSE faults' = faults
    /\ outcome' = [outcome EXCEPT ![u_i + 1] = "timeout"]
    /\ u_i' = u_i + 1
    /\ u_pc' = "send"
    /\ now' = now + RecvTimeoutUs
    /\ UNCHANGED <<skew, syncVars, tcpVars, asideVars,
                   cfg, running, u_packet, u_samples, u_req,
                   u_rsp, u_rxq, s_buf, fate, corrupted>>

\* A slip of the receive branch: seq_num is not compared with i + 1.
UdpClientRecv_AnySeq ==
    /\ u_pc = "recv"
    /\ u_rxq # <<>>
    /\ LET dg    == Head(u_rxq).bytes
           n     == Min(Len(dg), PacketSizeOf(u_packet))
           got   == Store(u_packet, 0, SubSeq(dg, 1, n))
           pkt   == Store(got, OffClientRecv, get_timestamp_usec(now + 1))
           valid == validate_packet(pkt)
           inseq == TRUE
       IN  /\ u_packet' = pkt
           /\ IF valid /\ inseq
              THEN /\ u_samples' = Append(u_samples,
                        [seq  |-> Field(pkt, OffSeqNum, 8),
                         rtt  |-> U64Sub(Field(pkt, OffClientRecv, 8),
                                         Field(pkt, OffClientSend, 8)),
                         proc |-> U64Sub(Field(pkt, OffServerSend, 8),
                                         Field(pkt, OffServerRecv, 8))])
                   /\ outcome' = [outcome EXCEPT ![u_i + 1] = "sample"]
                   /\ now' = now + 1 + ActualDelayUs(cfg)
              ELSE /\ outcome' = [outcome EXCEPT ![u_i + 1] =
                                     IF valid THEN "mismatch" ELSE "invalid"]
                   /\ now' = now + 1
                   /\ UNCHANGED u_samples
    /\ u_rxq' = Tail(u_rxq)
    /\ u_i' = u_i + 1
    /\ u_pc' = "send"
    /\ UNCHANGED <<skew, syncVars, tcpVars, asideVars,
                   cfg, running, u_req, u_rsp, s_buf, fate,
                   corrupted, faults>>

\* Lines 875-920: recvfrom stores the datagram at the head of the socket's
\* queue into the packet buffer (at most packet->packet_size bytes of it),
\* one microsecond of transit after the client's clock last moved;
\* client_recv is stamped; the packet is validated and its seq_num compared
\* with i + 1; a sample is stored and the pacing sleep follows, or the loop
\* continues at once.
UdpClientRecv ==
    /\ u_pc = "recv"
    /\ u_rxq # <<>>
    /\ LET dg    == Head(u_rxq).bytes
           n     == Min(Len(dg), PacketSizeOf(u_packet))
           got   == Store(u_packet, 0, SubSeq(dg, 1, n))
           pkt   == Store(got, OffClientRecv, get_timestamp_usec(now + 1))
           valid == validate_packet(pkt)
           inseq == Field(pkt, OffSeqNum, 8) = LE(u_i + 1, 8)
       IN  /\ u_packet' = pkt
           /\ IF valid /\ inseq
              THEN /\ u_samples' = Append(u_samples,
                        [seq  |-> Field(pkt, OffSeqNum, 8),
                         rtt  |-> U64Sub(Field(pkt, OffClientRecv, 8),
                                         Field(pkt, OffClientSend, 8)),
                         proc |-> U64Sub(Field(pkt, OffServerSend, 8),
                                         Field(pkt, OffServerRecv, 8))])
                   /\ outcome' = [outcome EXCEPT ![u_i + 1] = "sample"]
                   /\ now' = now + 1 + ActualDelayUs(cfg)
              ELSE /\ outcome' = [outcome EXCEPT ![u_i + 1] =
                                     IF valid THEN "mismatch" ELSE "invalid"]
                   /\ now' = now + 1
                   /\ UNCHANGED u_samples
    /\ u_rxq' = Tail(u_rxq)
    /\ u_i' = u_i + 1
    /\ u_pc' = "send"
    /\ UNCHANGED <<skew, syncVars, tcpVars, asideVars,
                   cfg, running, u_req, u_rsp, s_buf, fate,
                   corrupted, faults>>

\* The loop condition i < config->num_packets && running fails: the client
\* goes on to the statistics.
UdpClientExit ==
    /\ u_pc = "send"
    /\ (u_i >= cfg.num_packets \/ ~running)
    /\ u_pc' = "summary"
    /\ UNCHANGED <<clockVars, syncVars, tcpVars, asideVars,
                   cfg, running, u_i, u_packet,
                   u_samples, u_req, u_rsp, u_rxq, s_buf, fate, corrupted,
                   outcome, faults>>

\* handle_signal in the client process: server_socket is -1 there, so
\* nothing is closed.
UdpClientSignal ==
    /\ u_pc \in {"send", "recv"}
    /\ running
    /\ running' = FALSE
    /\ faults < MaxFaults
    /\ faults' = faults + 1
    /\ UNCHANGED <<clockVars, syncVars, tcpVars, asideVars,
                   cfg, u_pc, u_i, u_packet, u_samples,
                   u_req, u_rsp, u_rxq, s_buf, fate, corrupted, outcome>>

\* The network and the server are followed for as long as the client runs:
\* at its exit the client closes the socket, and what is still on its way
\* reaches nobody.
ClientAlive == u_pc \in {"send", "recv"}

\* One iteration of the loop of run_udp_server on a datagram the network
\* delivers: recvfrom stores at most MAX_PACKET_SIZE bytes at the start of
\* the buffer, both timestamps are stamped, and packet_size bytes of the
\* buffer are sent back.
UdpServerEcho ==
    /\ ClientAlive
    /\ \E r \in u_req :
        LET got     == SrvWrite(s_buf, 0, r.bytes)
            t       == get_timestamp_usec(now + 1 + skew)
            stamped == ServerStamp(got, t, t)
            size    == PacketSizeOf(SrvRead(stamped, HeaderSize))
        IN  /\ size <= MAX_PACKET_SIZE
            /\ s_buf' = stamped
            /\ u_req' = u_req \ {r}
            /\ u_rsp' = u_rsp \cup
                   {[id |-> r.id, bytes |-> SrvRead(stamped, size)]}
    /\ now' = now + 1
    /\ UNCHANGED <<skew, syncVars, tcpVars, asideVars,
                   cfg, running, u_pc, u_i, u_packet,
                   u_samples, u_rxq, fate, corrupted, outcome, faults>>

\* The network loses a datagram on its way to the server.
NetDropRequest ==
    /\ ClientAlive
    /\ faults < MaxFaults
    /\ faults' = faults + 1
    /\ \E r \in u_req :
        /\ u_req' = u_req \ {r}
        /\ fate' = [fate EXCEPT ![r.id] = "dropped"]
    /\ UNCHANGED <<clockVars, syncVars, tcpVars, asideVars,
                   cfg, running, u_pc, u_i, u_packet,
                   u_samples, u_rsp, u_rxq, s_buf, corrupted, outcome>>

\* The network loses a datagram on its way to the client.
NetDropEcho ==
    /\ ClientAlive
    /\ faults < MaxFaults
    /\ faults' = faults + 1
    /\ \E r \in u_rsp :
        /\ u_rsp' = u_rsp \ {r}
        /\ fate' = [fate EXCEPT ![r.id] = "dropped"]
    /\ UNCHANGED <<clockVars, syncVars, tcpVars, asideVars,
                   cfg, running, u_pc, u_i, u_packet,
                   u_samples, u_req, u_rxq, s_buf, corrupted, outcome>>

\* Whether the echo of packet id arrives while the client waits for it.
InTime(id) == u_pc = "recv" /\ u_i + 1 = id

\* The network delivers an echo to the client's socket.
NetDeliverEcho ==
    /\ ClientAlive
    /\ \E r \in u_rsp :
        /\ u_rsp' = u_rsp \ {r}
        /\ u_rxq' = Append(u_rxq, r)
        /\ fate' = [fate EXCEPT ![r.id] =
                       IF InTime(r.id) THEN "intime" ELSE "late"]
    /\ UNCHANGED <<clockVars, syncVars, tcpVars, asideVars,
                   cfg, running, u_pc, u_i, u_packet,
                   u_samples, u_req, s_buf, corrupted, outcome, faults>>

\* The network delivers an echo with one byte changed.
NetCorruptEcho ==
    /\ ClientAlive
    /\ faults < MaxFaults
    /\ faults' = faults + 1
    /\ \E r \in u_rsp, off \in CorruptOffsets :
        /\ off < Len(r.bytes)
        /\ u_rsp' = u_rsp \ {r}
        /\ u_rxq' = Append(u_rxq, [r EXCEPT !.bytes = Corrupt(r.bytes, off)])
        /\ fate' = [fate EXCEPT ![r.id] =
                       IF InTime(r.id) THEN "intime" ELSE "late"]
        /\ corrupted' = corrupted \cup {r.id}
    /\ UNCHANGED <<clockVars, syncVars, tcpVars, asideVars,
                   cfg, running, u_pc, u_i, u_packet,
                   u_samples, u_req, s_buf, outcome>>

NextUdp ==
    \/ UdpClientSend
    \/ UdpClientTimeout
    \/ UdpClientRecv
    \/ UdpClientExit
    \/ UdpClientSignal
    \/ UdpServerEcho
    \/ NetDropRequest
    \/ NetDropEcho
    \/ NetDeliverEcho
    \/ NetCorruptEcho

SpecUdp == InitUdp /\ [][NextUdp]_vars

(***************************************************************************)
(* Properties of the datagram client.                                      *)
(***************************************************************************)

Iterations == 1..cfg.num_packets

\* The data packets sent so far.
Attempted == {k \in Iterations : fate[k] # "none"}

\* So far the channel has dropped every third data packet (the packet or its
\* echo) and has echoed every other one in time and unchanged; no sendto
\* has failed and no stop signal has come.
DropsEveryThird ==
    /\ running
    /\ corrupted = {}
    /\ \A k \in Iterations : outcome[k] # "send_fail"
    /\ \A k \in Attempted :
          fate[k] = (IF k % 3 = 0 THEN "dropped" ELSE "intime")

\* C1: a run of N attempts against a channel that drops every third packet
\* and echoes the others in time records exactly N - floor(N/3) samples:
\* k - floor(k/3) after k iterations, and the summary is reached after all
\* N of them.
C1_DropEveryThirdSampleCount ==
    /\ (u_pc = "send" /\ DropsEveryThird) =>
          Len(u_samples) = u_i - (u_i \div 3)
    /\ (u_pc = "summary" /\ DropsEveryThird) =>
          /\ u_i = cfg.num_packets
          /\ Len(u_samples) = cfg.num_packets - (cfg.num_packets \div 3)

\* C1 witness: a finished run of at least 3 attempts over such a channel.
C1_Witness ==
    /\ u_pc = "summary"
    /\ DropsEveryThird
    /\ cfg.num_packets >= 3
    /\ outcome[3] = "timeout"
    /\ Len(u_samples) = cfg.num_packets - 1

\* What is left of a datagram run: the iterations not yet begun weigh most,
\* then the client's place in the iteration, then the datagrams that are on
\* their way or wait in the socket, then the stop signal not yet sent.
UdpRemaining ==
    10 * (cfg.num_packets - u_i)
      + (IF u_pc = "send" THEN 9 ELSE IF u_pc = "recv" THEN 5 ELSE 0)
      + 3 * Cardinality(u_req) + 2 * Cardinality(u_rsp) + Len(u_rxq)
      + (IF running THEN 1 ELSE 0)

\* C15: a datagram client run without clock synchronization terminates
\* under any pattern of lost requests and lost echoes.  Every step of the
\* run leaves less of it to do, and what is left is never negative, so no
\* run goes on forever; the client is never stuck in recvfrom: the timeout
\* can strike unless a datagram waits in the socket or the echo of the
\* iteration is about to arrive; a receive that times out is followed by
\* the next iteration, it does not end the loop; and a client that was not
\* told to stop is at the summary after exactly num_packets iterations,
\* each of them resolved.
C15_DatagramClientTerminates ==
    /\ [][/\ UdpRemaining' < UdpRemaining
          /\ \A k \in Iterations :
                (outcome[k] # "timeout" /\ outcome'[k] = "timeout") =>
                    (u_pc' = "send" /\ u_i' = k)]_vars
    /\ [](/\ UdpRemaining >= 0
          /\ u_pc = "recv" =>
                \/ u_rxq # <<>>
                \/ OnItsWay(u_i + 1)
                \/ ENABLED UdpClientTimeout
          /\ (u_pc = "summary" /\ running) =>
                /\ u_i = cfg.num_packets
                /\ \A k \in Iterations : outcome[k] # "none")

\* A client that was not told to stop has reached the summary after the
\* largest number of iterations, the receive of the first and of the last
\* of them timed out.
C15_Witness ==
    /\ u_pc = "summary"
    /\ running
    /\ ~cfg.time_sync
    /\ cfg.num_packets = MaxPackets
    /\ u_i = MaxPackets
    /\ outcome[1] = "timeout"
    /\ outcome[MaxPackets] = "timeout"

\* C16: there is never more than one packet in flight in a session: of the
\* data packets the datagram client has sent, at most one, as the packet or
\* as its echo, is in the network or at the server; also after a receive
\* has timed out.
C16_AtMostOneInFlight ==
    ClientAlive => Cardinality({r.id : r \in u_req \cup u_rsp}) <= 1

\* C2: after iteration i rejected its reply because validate failed, every
\* later iteration j whose request and echo crossed the network unchanged
\* and in time produces a sample (also in a run without any late echo).
C2_CorruptionDiscardsOneSample ==
    \A i \in Iterations : \A j \in Iterations :
        ( /\ i < j
          /\ outcome[i] = "invalid"
          /\ outcome[j] \notin {"none", "send_fail"}
          /\ fate[j] = "intime"
          /\ j \notin corrupted
          /\ \A k \in Iterations : fate[k] # "late" )
        => outcome[j] = "sample"

\* C3: after iteration i read a reply whose seq_num is not i + 1, every
\* later iteration j whose own echo reached the client within the wait
\* after its send produces a sample.
C3_MismatchDiscardsOneSample ==
    \A i \in Iterations : \A j \in Iterations :
        ( /\ i < j
          /\ outcome[i] = "mismatch"
          /\ outcome[j] \notin {"none", "send_fail"}
          /\ fate[j] = "intime"
          /\ corrupted = {} )
        => outcome[j] = "sample"

(***************************************************************************)
(* run_tcp_client and run_tcp_server over stream connections.              *)
(***************************************************************************)

\* How many faults one run of the stream processes may see.  A fault is a
\* recv that returns fewer bytes than were asked for and are there, a broken
\* connection, or a stop signal.
MaxTcpFaults == 1

\* The largest num_packets a stream client is tried with.
MaxTcpPackets == 2

\* The client processes that may take part in a run.
ClientIds == {1, 2}

\* The byte counts, short of what was asked for and is there, that one recv
\* on a stream may return: the seq_num field alone, and the header short of
\* its padding.
SplitSizes == {OffClientSend, PayloadOff}

\* How many bytes of what is on its way still arrive when a connection
\* breaks: none, or one packet header.
CutSizes == {0, HeaderSize}

\* What recv returns at the end of a stream: 0 at an orderly end, -1 at a
\* broken connection.
RecvEnd == {0, 0 - 1}

TcpConfigs ==
    {[num_packets |-> n, packet_size |-> MIN_PACKET_SIZE, rate_pps |-> 10,
      delay_ms |-> 100, time_sync |-> FALSE] : n \in 1..MaxTcpPackets}

\* The configuration of client c: the second client sends one packet.
ClientCfg(c) == IF c = 1 THEN cfg ELSE [cfg EXCEPT !.num_packets = 1]

\* One direction of a connection: the bytes written and not yet read, and
\* whether the writing end is gone.
EmptyStream == [data |-> <<>>, eof |-> FALSE]

\* The counts recv may return when asked for n bytes of a stream that holds
\* avail > 0 bytes.
RecvCounts(n, avail) ==
    {Min(n, avail)} \cup {k \in SplitSizes : k < Min(n, avail)}

\* The counts a send of n bytes on a stream may return: n, or fewer when a
\* signal interrupts the call after part of the bytes was taken.
SendCounts(n) == {n} \cup {k \in SplitSizes : k < n}

\* What a recv returning k bytes, asked for n of avail, costs in faults.
SplitCost(k, n, avail) == IF k < Min(n, avail) THEN 1 ELSE 0

\* validate_packet(packet) on a buffer of Len(buf) allocated bytes: the
\* loop returns 0 at the first payload byte that differs, and reads past
\* the allocation when packet_size promises more payload than was allocated
\* and all the allocated payload matches.
CheckPacket(buf) ==
    LET n     == PacketSizeOf(buf) - HeaderSize
        alloc == Len(buf) - PayloadOff
    IN  IF n < 0 THEN "invalid"
        ELSE IF \E i \in 0..(Min(n, alloc) - 1) :
                    buf[PayloadOff + i + 1] # i % 256
             THEN "invalid"
             ELSE IF n > alloc THEN "overread" ELSE "valid"

\* What no action of the stream processes changes.
tcpFixed == <<skew, syncVars, udpOnly, asideVars, cfg, clients>>

InitTcp ==
    /\ now = 1000
    /\ skew = 0
    /\ SyncIdle
    /\ UdpClientIdle
    /\ CodecIdle
    /\ DgramIdle
    /\ StatIdle
    /\ TputIdle
    /\ LatIdle
    /\ SeqIdle
    /\ DurIdle
    /\ cfg \in TcpConfigs
    /\ s_buf = <<>>
    /\ faults = 0
    /\ clients \in {{1}, ClientIds}
    /\ t_pc = [c \in clients |-> "connect"]
    /\ t_i = [c \in clients |-> 0]
    /\ t_packet = [c \in clients |-> create_packet(cfg.packet_size)]
    /\ t_got = [c \in clients |-> 0]
    /\ t_running = [c \in clients |-> TRUE]
    /\ t_samples = [c \in clients |-> <<>>]
    /\ c2s = [c \in clients |-> EmptyStream]
    /\ s2c = [c \in clients |-> EmptyStream]
    /\ conn = [c \in clients |-> "none"]
    /\ backlog = <<>>
    /\ s_pc = "accept_head"
    /\ s_running = TRUE
    /\ s_listen = "open"
    /\ s_closes = 0
    /\ s_cur = 0
    /\ s_got = 0
    /\ rx_from = [c \in clients |-> 0]
    /\ tx_to = [c \in clients |-> 0]
    /\ t_rx = [c \in clients |-> 0]
    /\ t_zero_at = [c \in clients |-> 0]
    /\ s_zero_tx = [c \in clients |-> 0 - 1]

\* Lines 580-584: connect.  The connection is established by the server's
\* listening socket and waits in its queue; without a listening socket the
\* client exits with a failure.
TcpClientConnect(c) ==
    /\ c \in clients
    /\ t_pc[c] = "connect"
    /\ IF s_listen = "open"
       THEN /\ conn' = [conn EXCEPT ![c] = "queued"]
            /\ backlog' = Append(backlog, c)
            /\ t_pc' = [t_pc EXCEPT ![c] = "send"]
       ELSE /\ t_pc' = [t_pc EXCEPT ![c] = "failed"]
            /\ UNCHANGED <<conn, backlog>>
    /\ UNCHANGED <<now, tcpFixed, t_i, t_packet, t_got, t_running, t_samples,
                   c2s, s2c, s_pc, s_running, s_listen, s_closes, s_cur,
                   s_got, s_buf, rx_from, tx_to, t_rx, t_zero_at, s_zero_tx,
                   faults>>

\* Loop head and lines 614-620: prepare the packet and send packet_size
\* bytes of it; the result of send is not looked at.  When the server's end
\* of the connection is gone the bytes reach nobody, and the write may
\* raise SIGPIPE, whose default action ends the process.
TcpClientSend(c) ==
    /\ c \in clients
    /\ t_pc[c] = "send"
    /\ t_i[c] < ClientCfg(c).num_packets
    /\ t_running[c]
    /\ LET pkt  == ClientPrepare(t_packet[c], t_i[c], get_timestamp_usec(now))
           size == PacketSizeOf(pkt)
       IN  /\ t_packet' = [t_packet EXCEPT ![c] = pkt]
           /\ IF size > Len(pkt)
              THEN /\ t_pc' = [t_pc EXCEPT ![c] = "undefined"]
                   /\ UNCHANGED <<c2s, t_running, faults>>
              ELSE IF s2c[c].eof
                   THEN /\ \E next \in {"recv_hdr", "killed"} :
                              t_pc' = [t_pc EXCEPT ![c] = next]
                        /\ UNCHANGED <<c2s, t_running, faults>>
                   ELSE \E k \in SendCounts(size) :
                          /\ t_pc' = [t_pc EXCEPT ![c] = "recv_hdr"]
                          /\ c2s' = [c2s EXCEPT ![c].data =
                                        @ \o SubSeq(pkt, 1, k)]
                          /\ IF k < size
                             THEN /\ faults < MaxTcpFaults
                                  /\ faults' = faults + 1
                                  /\ t_running' =
                                        [t_running EXCEPT ![c] = FALSE]
                             ELSE UNCHANGED <<t_running, faults>>
    /\ t_got' = [t_got EXCEPT ![c] = 0]
    /\ UNCHANGED <<now, tcpFixed, t_i, t_samples, s2c, conn, backlog, s_pc,
                   s_running, s_listen, s_closes, s_cur, s_got, s_buf,
                   rx_from, tx_to, t_rx, t_zero_at, s_zero_tx>>

\* Lines 635-678, once the receive of the iteration has left got in
\* bytes_received and buf in the packet buffer: the check of bytes_received,
\* the client_recv stamp, the validation, the sample and the pacing sleep.
TcpClientComplete(c, buf, got) ==
    IF got <= 0
    THEN /\ t_pc' = [t_pc EXCEPT ![c] = "summary"]
         /\ t_packet' = [t_packet EXCEPT ![c] = buf]
         /\ UNCHANGED <<now, t_i, t_samples>>
    ELSE LET pkt == Store(buf, OffClientRecv, get_timestamp_usec(now + 1))
             chk == CheckPacket(pkt)
         IN  /\ t_packet' = [t_packet EXCEPT ![c] = pkt]
             /\ t_pc' = [t_pc EXCEPT ![c] =
                            IF chk = "overread" THEN "undefined" ELSE "send"]
             /\ t_i' = [t_i EXCEPT ![c] = @ + 1]
             /\ IF chk = "valid"
                THEN /\ t_samples' = [t_samples EXCEPT ![c] = Append(@,
                          [iter |-> t_i[c] + 1,
                           seq  |-> Field(pkt, OffSeqNum, 8),
                           rtt  |-> U64Sub(Field(pkt, OffClientRecv, 8),
                                           Field(pkt, OffClientSend, 8)),
                           proc |-> U64Sub(Field(pkt, OffServerSend, 8),
                                           Field(pkt, OffServerRecv, 8))])]
                     /\ now' = now + 1 + ActualDelayUs(ClientCfg(c))
                ELSE /\ now' = now + 1
                     /\ UNCHANGED t_samples

\* Lines 623-638 up to the second recv: one recv of at most sizeof(packet_t)
\* bytes into the start of the buffer; a result <= 0 breaks out of the
\* loop; remaining_bytes is computed from the packet_size now in the
\* buffer, and the iteration completes at once when it is not positive.
TcpClientRecvHdr(c) ==
    /\ c \in clients
    /\ t_pc[c] = "recv_hdr"
    /\ IF s2c[c].data # <<>>
       THEN \E k \in RecvCounts(HeaderSize, Len(s2c[c].data)) :
              LET buf == Store(t_packet[c], 0, SubSeq(s2c[c].data, 1, k))
                  cost == SplitCost(k, HeaderSize, Len(s2c[c].data))
              IN  /\ faults + cost <= MaxTcpFaults
                  /\ faults' = faults + cost
                  /\ s2c' = [s2c EXCEPT ![c].data =
                                SubSeq(@, k + 1, Len(@))]
                  /\ t_rx' = [t_rx EXCEPT ![c] = @ + k]
                  /\ t_got' = [t_got EXCEPT ![c] = k]
                  /\ IF PacketSizeOf(buf) - k > 0
                     THEN /\ t_packet' = [t_packet EXCEPT ![c] = buf]
                          /\ t_pc' = [t_pc EXCEPT ![c] = "recv_rest"]
                          /\ UNCHANGED <<now, t_i, t_samples>>
                     ELSE TcpClientComplete(c, buf, k)
                  /\ UNCHANGED t_zero_at
       ELSE /\ s2c[c].eof
            /\ t_zero_at' = [t_zero_at EXCEPT ![c] = t_i[c] + 1]
            /\ t_pc' = [t_pc EXCEPT ![c] = "summary"]
            /\ UNCHANGED <<now, t_i, t_packet, t_got, t_samples, s2c, t_rx,
                           faults>>
    /\ UNCHANGED <<tcpFixed, t_running, c2s, conn, backlog, s_pc, s_running,
                   s_listen, s_closes, s_cur, s_got, s_buf, rx_from, tx_to,
                   s_zero_tx>>

\* Lines 630-678: one recv of at most remaining_bytes bytes behind what the
\* first recv stored; its result is added to bytes_received, and the
\* iteration completes.  Bytes stored past the allocation leave the
\* behaviour of the process undefined.
TcpClientRecvRest(c) ==
    /\ c \in clients
    /\ t_pc[c] = "recv_rest"
    /\ LET remaining == PacketSizeOf(t_packet[c]) - t_got[c]
       IN  IF s2c[c].data # <<>>
           THEN \E k \in RecvCounts(remaining, Len(s2c[c].data)) :
                  LET cost == SplitCost(k, remaining, Len(s2c[c].data))
                  IN  /\ faults + cost <= MaxTcpFaults
                      /\ faults' = faults + cost
                      /\ s2c' = [s2c EXCEPT ![c].data =
                                    SubSeq(@, k + 1, Len(@))]
                      /\ t_rx' = [t_rx EXCEPT ![c] = @ + k]
                      /\ t_got' = [t_got EXCEPT ![c] = @ + k]
                      /\ IF t_got[c] + k > Len(t_packet[c])
                         THEN /\ t_pc' = [t_pc EXCEPT ![c] = "undefined"]
                              /\ UNCHANGED <<now, t_i, t_packet, t_samples>>
                         ELSE TcpClientComplete(c,
                                  Store(t_packet[c], t_got[c],
                                        SubSeq(s2c[c].data, 1, k)),
                                  t_got[c] + k)
                      /\ UNCHANGED t_zero_at
           ELSE /\ s2c[c].eof
                /\ \E r \in RecvEnd :
                      /\ t_got' = [t_got EXCEPT ![c] = @ + r]
                      /\ TcpClientComplete(c, t_packet[c], t_got[c] + r)
                /\ t_zero_at' = [t_zero_at EXCEPT ![c] = t_i[c] + 1]
                /\ UNCHANGED <<s2c, t_rx, faults>>
    /\ UNCHANGED <<tcpFixed, t_running, c2s, conn, backlog, s_pc, s_running,
                   s_listen, s_closes, s_cur, s_got, s_buf, rx_from, tx_to,
                   s_zero_tx>>

\* The loop condition i < config->num_packets && running fails.  Here as
\* after a break, lines 681-770 follow: the statistics are printed and the
\* socket is closed, which is what t_pc = "summary" stands for.
TcpClientExit(c) ==
    /\ c \in clients
    /\ t_pc[c] = "send"
    /\ (t_i[c] >= ClientCfg(c).num_packets \/ ~t_running[c])
    /\ t_pc' = [t_pc EXCEPT ![c] = "summary"]
    /\ UNCHANGED <<now, tcpFixed, t_i, t_packet, t_got, t_running, t_samples,
                   c2s, s2c, conn, backlog, s_pc, s_running, s_listen,
                   s_closes, s_cur, s_got, s_buf, rx_from, tx_to, t_rx,
                   t_zero_at, s_zero_tx, faults>>

\* Whether client c is inside a recv that has nothing to return.
TcpClientBlocked(c) ==
    /\ t_pc[c] \in {"recv_hdr", "recv_rest"}
    /\ s2c[c].data = <<>>
    /\ ~s2c[c].eof

\* handle_signal in a client process: running = 0; server_socket is -1
\* there, so no socket is closed.  A recv the signal finds blocked is
\* either restarted by the system or returns -1, as the platform's signal()
\* has it.  The signal is followed at the loop head and in a blocked recv:
\* one that comes elsewhere is seen at the next loop head all the same.
TcpClientSignal(c) ==
    /\ c \in clients
    /\ t_pc[c] = "send" \/ TcpClientBlocked(c)
    /\ t_running[c]
    /\ faults < MaxTcpFaults
    /\ faults' = faults + 1
    /\ t_running' = [t_running EXCEPT ![c] = FALSE]
    /\ \/ UNCHANGED <<now, t_pc, t_i, t_packet, t_got, t_samples, t_zero_at>>
       \/ /\ TcpClientBlocked(c)
          /\ t_zero_at' = [t_zero_at EXCEPT ![c] = t_i[c] + 1]
          /\ IF t_pc[c] = "recv_hdr"
             THEN /\ t_pc' = [t_pc EXCEPT ![c] = "summary"]
                  /\ UNCHANGED <<now, t_i, t_packet, t_got, t_samples>>
             ELSE /\ t_got' = [t_got EXCEPT ![c] = @ - 1]
                  /\ TcpClientComplete(c, t_packet[c], t_got[c] - 1)
    /\ UNCHANGED <<tcpFixed, c2s, s2c, conn, backlog, s_pc, s_running,
                   s_listen, s_closes, s_cur, s_got, s_buf, rx_from, tx_to,
                   t_rx, s_zero_tx>>

\* Whether the client's end of connection c is gone: the connection broke,
\* or the client closed its socket, or the process was ended.
ClientGone(c) == c2s[c].eof \/ t_pc[c] \in {"summary", "killed"}

\* The server's stamping of the packet in its buffer, which it keeps as the
\* leading bytes written.
SrvStamp(w, t_recv, t_send) ==
    SrvWrite(SrvWrite(w, OffServerRecv, t_recv), OffServerSend, t_send)

\* A slip of the test: the largest int in place of 0xFFFFFFFF.
IsSyncTag_FromIntMax(seq) ==
    ~U64Lt(seq, U64Sub(LE(2147483647, 8), LE(20, 8)))

\* packet_buffer->seq_num >= 0xFFFFFFFF - 20
IsSyncTag(seq) == ~U64Lt(seq, U64Sub(HEX_FFFFFFFF, LE(20, 8)))

\* The connections in the queue of the listening socket are reset when it
\* is closed.
ResetQueued(streams) ==
    [c \in clients |->
        IF conn[c] = "queued" THEN [streams[c] EXCEPT !.eof = TRUE]
        ELSE streams[c]]

\* Line 373: the condition of the accept loop; accept is entered, or the
\* loop is left.
TcpServerLoopHead ==
    /\ s_pc = "accept_head"
    /\ s_pc' = IF s_running THEN "in_accept" ELSE "cleanup"
    /\ UNCHANGED <<now, tcpFixed, t_pc, t_i, t_packet, t_got, t_running,
                   t_samples, c2s, s2c, conn, backlog, s_running, s_listen,
                   s_closes, s_cur, s_got, s_buf, rx_from, tx_to, t_rx,
                   t_zero_at, s_zero_tx, faults>>

\* Line 375: accept returns the connection at the head of the queue.
TcpServerAccept ==
    /\ s_pc = "in_accept"
    /\ backlog # <<>>
    /\ s_cur' = Head(backlog)
    /\ backlog' = Tail(backlog)
    /\ conn' = [conn EXCEPT ![Head(backlog)] = "accepted"]
    /\ s_pc' = "inner_head"
    /\ UNCHANGED <<now, tcpFixed, t_pc, t_i, t_packet, t_got, t_running,
                   t_samples, c2s, s2c, s_running, s_listen, s_closes, s_got,
                   s_buf, rx_from, tx_to, t_rx, t_zero_at, s_zero_tx, faults>>

\* Line 401: the condition of the packet loop; the recv of the header is
\* entered, or the loop is left.
TcpServerInnerHead ==
    /\ s_pc = "inner_head"
    /\ s_pc' = IF s_running THEN "in_recv_hdr" ELSE "closing"
    /\ s_got' = 0
    /\ UNCHANGED <<now, tcpFixed, t_pc, t_i, t_packet, t_got, t_running,
                   t_samples, c2s, s2c, conn, backlog, s_running, s_listen,
                   s_closes, s_cur, s_buf, rx_from, tx_to, t_rx, t_zero_at,
                   s_zero_tx, faults>>

\* send(client_fd, ...) of data, out being the streams to the clients: the
\* bytes join the stream to the client, or reach nobody when the client's
\* end of the connection is gone.
TcpServerSend(out, data) ==
    /\ s2c' = [out EXCEPT ![s_cur].data =
                  IF ClientGone(s_cur) THEN @ ELSE @ \o data]
    /\ tx_to' = [tx_to EXCEPT ![s_cur] = @ + Len(data)]

\* Lines 424-435, once the receive has left got in bytes_received and w in
\* the buffer, out being the streams to the clients: the check of
\* bytes_received, the two stamps, and the send of
\* packet_size bytes of the buffer.  A packet_size beyond the buffer, or a
\* negative one converted to size_t, makes send read past it.
TcpServerEcho(w, got, out) ==
    IF got <= 0
    THEN /\ s_pc' = "closing"
         /\ s_buf' = w
         /\ s2c' = out
         /\ UNCHANGED <<now, tx_to>>
    ELSE LET t       == get_timestamp_usec(now + 1 + skew)
             stamped == SrvStamp(w, t, t)
             size    == PacketSizeOf(SrvRead(stamped, HeaderSize))
         IN  /\ s_buf' = stamped
             /\ now' = now + 1
             /\ IF size > MAX_PACKET_SIZE \/ size < 0
                THEN /\ s_pc' = "undefined"
                     /\ s2c' = out
                     /\ UNCHANGED tx_to
                ELSE /\ s_pc' = "inner_head"
                     /\ TcpServerSend(out, SrvRead(stamped, size))

\* Lines 403-422 up to the second recv: one recv of at most
\* sizeof(packet_t) bytes into the start of the buffer; a result <= 0
\* breaks out of the packet loop; a sync tag in seq_num is answered with
\* the stamped header; otherwise remaining_bytes is computed from the
\* packet_size now in the buffer.
TcpServerRecvHdr ==
    /\ s_pc = "in_recv_hdr"
    /\ IF c2s[s_cur].data # <<>>
       THEN \E k \in RecvCounts(HeaderSize, Len(c2s[s_cur].data)) :
              LET w    == SrvWrite(s_buf, 0, SubSeq(c2s[s_cur].data, 1, k))
                  hdr  == SrvRead(w, HeaderSize)
                  cost == SplitCost(k, HeaderSize, Len(c2s[s_cur].data))
                  t    == get_timestamp_usec(now + 1 + skew)
              IN  /\ faults + cost <= MaxTcpFaults
                  /\ faults' = faults + cost
                  /\ c2s' = [c2s EXCEPT ![s_cur].data =
                                SubSeq(@, k + 1, Len(@))]
                  /\ rx_from' = [rx_from EXCEPT ![s_cur] = @ + k]
                  /\ s_got' = k
                  /\ IF IsSyncTag(Field(hdr, OffSeqNum, 8))
                     THEN /\ s_buf' = SrvStamp(w, t, t)
                          /\ TcpServerSend(s2c,
                                 SrvRead(SrvStamp(w, t, t), HeaderSize))
                          /\ now' = now + 1
                          /\ s_pc' = "inner_head"
                     ELSE IF PacketSizeOf(hdr) - k > 0
                          THEN /\ s_buf' = w
                               /\ s_pc' = "in_recv_rest"
                               /\ UNCHANGED <<now, s2c, tx_to>>
                          ELSE TcpServerEcho(w, k, s2c)
                  /\ UNCHANGED s_zero_tx
       ELSE /\ ClientGone(s_cur)
            /\ s_zero_tx' = [s_zero_tx EXCEPT ![s_cur] = tx_to[s_cur]]
            /\ s_pc' = "closing"
            /\ UNCHANGED <<now, c2s, s2c, s_got, s_buf, rx_from, tx_to,
                           faults>>
    /\ UNCHANGED <<tcpFixed, t_pc, t_i, t_packet, t_got, t_running,
                   t_samples, conn, backlog, s_running, s_listen, s_closes,
                   s_cur, t_rx, t_zero_at>>

\* Lines 418-435: one recv of at most remaining_bytes bytes behind what the
\* first recv stored; its result is added to bytes_received, and the packet
\* is stamped and echoed.  Bytes stored past the buffer leave the behaviour
\* of the process undefined.
TcpServerRecvRest ==
    /\ s_pc = "in_recv_rest"
    /\ LET remaining == PacketSizeOf(SrvRead(s_buf, HeaderSize)) - s_got
       IN  IF c2s[s_cur].data # <<>>
           THEN \E k \in RecvCounts(remaining, Len(c2s[s_cur].data)) :
                  LET cost == SplitCost(k, remaining, Len(c2s[s_cur].data))
                  IN  /\ faults + cost <= MaxTcpFaults
                      /\ faults' = faults + cost
                      /\ c2s' = [c2s EXCEPT ![s_cur].data =
                                    SubSeq(@, k + 1, Len(@))]
                      /\ rx_from' = [rx_from EXCEPT ![s_cur] = @ + k]
                      /\ s_got' = s_got + k
                      /\ IF s_got + k > MAX_PACKET_SIZE
                         THEN /\ s_pc' = "undefined"
                              /\ UNCHANGED <<now, s_buf, s2c, tx_to>>
                         ELSE TcpServerEcho(
                                  SrvWrite(s_buf, s_got,
                                           SubSeq(c2s[s_cur].data, 1, k)),
                                  s_got + k, s2c)
                      /\ UNCHANGED s_zero_tx
           ELSE /\ ClientGone(s_cur)
                /\ \E r \in RecvEnd :
                      /\ s_got' = s_got + r
                      /\ TcpServerEcho(s_buf, s_got + r, s2c)
                /\ s_zero_tx' = [s_zero_tx EXCEPT ![s_cur] = tx_to[s_cur]]
                /\ UNCHANGED <<c2s, rx_from, faults>>
    /\ UNCHANGED <<tcpFixed, t_pc, t_i, t_packet, t_got, t_running,
                   t_samples, conn, backlog, s_running, s_listen, s_closes,
                   s_cur, t_rx, t_zero_at>>

\* A slip of line 439: the connection is left open when the packet loop is
\* left.
TcpServerClose_Leak ==
    /\ s_pc = "closing"
    /\ s_cur' = 0
    /\ s_pc' = "accept_head"
    /\ UNCHANGED <<now, tcpFixed, t_pc, t_i, t_packet, t_got, t_running,
                   t_samples, c2s, s2c, conn, backlog, s_running, s_listen,
                   s_closes, s_got, s_buf, rx_from, tx_to, t_rx, t_zero_at,
                   s_zero_tx, faults>>

\* Line 439: close(client_fd); the accept loop goes round.
TcpServerClose ==
    /\ s_pc = "closing"
    /\ conn' = [conn EXCEPT ![s_cur] = "closed"]
    /\ s2c' = [s2c EXCEPT ![s_cur].eof = TRUE]
    /\ s_cur' = 0
    /\ s_pc' = "accept_head"
    /\ UNCHANGED <<now, tcpFixed, t_pc, t_i, t_packet, t_got, t_running,
                   t_samples, c2s, backlog, s_running, s_listen, s_closes,
                   s_got, s_buf, rx_from, tx_to, t_rx, t_zero_at, s_zero_tx,
                   faults>>

\* close() of the listening socket, but for what it does to the streams
\* of the connections in its queue.
CloseListening ==
    /\ s_listen' = "closed"
    /\ s_closes' = s_closes + 1
    /\ backlog' = <<>>
    /\ conn' = [c \in clients |->
                   IF conn[c] = "queued" THEN "closed" ELSE conn[c]]

\* Lines 443-445: close(server_fd) after the accept loop.
TcpServerCleanup ==
    /\ s_pc = "cleanup"
    /\ CloseListening
    /\ c2s' = ResetQueued(c2s)
    /\ s2c' = ResetQueued(s2c)
    /\ s_pc' = "done"
    /\ UNCHANGED <<now, tcpFixed, t_pc, t_i, t_packet, t_got, t_running,
                   t_samples, s_running, s_cur, s_got, s_buf, rx_from, tx_to,
                   t_rx, t_zero_at, s_zero_tx, faults>>

\* Whether the server is inside a recv that has nothing to return.
TcpServerBlocked ==
    /\ s_pc \in {"in_recv_hdr", "in_recv_rest"}
    /\ c2s[s_cur].data = <<>>
    /\ ~ClientGone(s_cur)

\* handle_signal in the server process: running = 0 and
\* close(server_socket), the listening socket.  An accept the signal finds
\* in progress returns -1, interrupted or restarted on the closed socket.
\* A recv the signal finds blocked is either restarted by the system or
\* returns -1, as the platform's signal() has it.
\* The signal is followed at the loop heads and in a blocked call: one that
\* comes elsewhere is seen at the next loop head all the same.
TcpServerSignal ==
    /\ s_pc \in {"accept_head", "in_accept", "inner_head"} \/ TcpServerBlocked
    /\ s_running
    /\ faults < MaxTcpFaults
    /\ faults' = faults + 1
    /\ s_running' = FALSE
    /\ CloseListening
    /\ c2s' = ResetQueued(c2s)
    /\ \/ /\ s_pc' = IF s_pc = "in_accept" THEN "cleanup" ELSE s_pc
          /\ s2c' = ResetQueued(s2c)
          /\ UNCHANGED <<now, s_got, s_buf, tx_to, s_zero_tx>>
       \/ /\ TcpServerBlocked
          /\ s_zero_tx' = [s_zero_tx EXCEPT ![s_cur] = tx_to[s_cur]]
          /\ IF s_pc = "in_recv_hdr"
             THEN /\ s_pc' = "closing"
                  /\ s2c' = ResetQueued(s2c)
                  /\ UNCHANGED <<now, s_got, s_buf, tx_to>>
             ELSE /\ s_got' = s_got - 1
                  /\ TcpServerEcho(s_buf, s_got - 1, ResetQueued(s2c))
    /\ UNCHANGED <<tcpFixed, t_pc, t_i, t_packet, t_got, t_running,
                   t_samples, s_cur, rx_from, t_rx, t_zero_at>>

\* A connection breaks: of the bytes on their way in one direction only
\* the first k arrive, and both ends find the other gone.
NetCut(c) ==
    /\ c \in clients
    /\ conn[c] \in {"queued", "accepted"}
    /\ t_pc[c] \in {"send", "recv_hdr", "recv_rest"}
    /\ ~c2s[c].eof
    /\ ~s2c[c].eof
    /\ faults < MaxTcpFaults
    /\ faults' = faults + 1
    /\ \/ \E k \in CutSizes :
            /\ k <= Len(c2s[c].data)
            /\ c2s' = [c2s EXCEPT ![c] =
                          [data |-> SubSeq(@.data, 1, k), eof |-> TRUE]]
            /\ s2c' = [s2c EXCEPT ![c].eof = TRUE]
       \/ \E k \in CutSizes :
            /\ k <= Len(s2c[c].data)
            /\ s2c' = [s2c EXCEPT ![c] =
                          [data |-> SubSeq(@.data, 1, k), eof |-> TRUE]]
            /\ c2s' = [c2s EXCEPT ![c].eof = TRUE]
    /\ UNCHANGED <<now, tcpFixed, t_pc, t_i, t_packet, t_got, t_running,
                   t_samples, conn, backlog, s_pc, s_running, s_listen,
                   s_closes, s_cur, s_got, s_buf, rx_from, tx_to, t_rx,
                   t_zero_at, s_zero_tx>>

NextTcp ==
    \/ \E c \in ClientIds : TcpClientConnect(c)
    \/ \E c \in ClientIds : TcpClientSend(c)
    \/ \E c \in ClientIds : TcpClientRecvHdr(c)
    \/ \E c \in ClientIds : TcpClientRecvRest(c)
    \/ \E c \in ClientIds : TcpClientExit(c)
    \/ \E c \in ClientIds : TcpClientSignal(c)
    \/ TcpServerLoopHead
    \/ TcpServerAccept
    \/ TcpServerInnerHead
    \/ TcpServerRecvHdr
    \/ TcpServerRecvRest
    \/ TcpServerClose
    \/ TcpServerCleanup
    \/ TcpServerSignal
    \/ \E c \in ClientIds : NetCut(c)

SpecTcp == InitTcp /\ [][NextTcp]_vars

(***************************************************************************)
(* Properties of the stream server and the stream client.                  *)
(***************************************************************************)

\* The connections accepted and not yet closed.
Accepted == {c \in clients : conn[c] = "accepted"}

\* C4: the stream server services one connection at a time.  At most one
\* connection is accepted and not yet closed, and of a client whose
\* connection is not yet accepted (it waits in the queue while another is
\* served) no byte has been received and none echoed.
C4_OneConnectionAtATime ==
    /\ Cardinality(Accepted) <= 1
    /\ \A c \in clients :
          conn[c] \in {"none", "queued"} => rx_from[c] = 0 /\ tx_to[c] = 0
    /\ \A c \in Accepted : s_cur = c

\* The first client is being served and has had an echo while the second
\* has connected and sent its packet, which waits unread.
C4_Witness ==
    /\ clients = ClientIds
    /\ conn[1] = "accepted"
    /\ tx_to[1] > 0
    /\ conn[2] = "queued"
    /\ Len(c2s[2].data) = cfg.packet_size
    /\ rx_from[2] = 0

\* Whether seq lies in the top 20 values below the largest 64-bit unsigned
\* value, that value included.
InTop20Of64(seq) ==
    ~U64Lt(seq, U64Sub(<<255, 255, 255, 255, 255, 255, 255, 255>>, LE(20, 8)))

\* C12: the sync packet the client sends in each round carries a seq_num in
\* the top 20 values below 2^64 - 1, and the stream server takes a seq_num
\* for a sync tag exactly when it lies in that range.
C12_SyncTagInTop20Of64 ==
    (sync_pc = "loop" /\ sync_i < SYNC_ROUNDS) =>
        LET seq == Field(SyncPacket(sync_i, get_timestamp_usec(now)),
                         OffSeqNum, 8)
        IN  /\ InTop20Of64(seq)
            /\ IsSyncTag(seq) <=> InTop20Of64(seq)

\* C5: after the stop signal is delivered the blocking call unblocks: no
\* role whose run flag the signal has cleared is still blocked in a receive
\* on an open connection, be it the server waiting for a silent client or a
\* client waiting for its reply.
C5_StopSignalUnblocksReceive ==
    /\ ~(TcpServerBlocked /\ ~s_running)
    /\ \A c \in clients : ~(TcpClientBlocked(c) /\ ~t_running[c])

\* C6: a stream receive reconstructs one whole packet however the bytes are
\* split across reads.  As long as no read of a client has failed or found
\* the stream at its end, the client at its loop head has read exactly
\* packet_size bytes per iteration, so that its next receive starts at a
\* packet boundary, and every packet received has validated; the server at
\* the head of its packet loop has likewise read whole packets only.
C6_StreamReceiveReconstructsPacket ==
    /\ \A c \in clients :
          (t_pc[c] = "send" /\ t_zero_at[c] = 0) =>
              /\ t_rx[c] = t_i[c] * cfg.packet_size
              /\ Len(t_samples[c]) = t_i[c]
    /\ (s_pc = "inner_head" /\ s_zero_tx[s_cur] = 0 - 1) =>
          rx_from[s_cur] % cfg.packet_size = 0

\* C7: a read that returns zero bytes or fails, at any point of a receive,
\* ends the session.  The client whose read did so in iteration k has left
\* its loop and holds no sample of iteration k; the server whose read did so
\* has echoed nothing since and is closing, or has closed, the connection.
C7_ZeroReadEndsSession ==
    /\ \A c \in clients :
          t_zero_at[c] # 0 =>
              /\ t_pc[c] = "summary"
              /\ \A k \in 1..Len(t_samples[c]) :
                    t_samples[c][k].iter # t_zero_at[c]
    /\ \A c \in clients :
          s_zero_tx[c] >= 0 =>
              /\ tx_to[c] = s_zero_tx[c]
              /\ s_cur = c => s_pc = "closing"

(***************************************************************************)
(* create_packet and validate_packet on a packet of their own.             *)
(***************************************************************************)

\* How far above MIN_PACKET_SIZE every packet size is tried.
MaxSizeStep == 8

\* The packet sizes tried: the smallest ones, one whose payload is longer
\* than the 256 bytes after which the pattern repeats, and the largest.
CodecSizes ==
    (MIN_PACKET_SIZE..(MIN_PACKET_SIZE + MaxSizeStep))
        \cup {HeaderSize + 300, MAX_PACKET_SIZE}

\* The payload indexes at which a byte of a packet of packet_size size is
\* changed: every index of a short payload, and of a long one the first,
\* those around the repetition of the pattern, and the last.
ChangedIndexes(size) ==
    LET n == size - HeaderSize
    IN  IF n <= 300 THEN 0..(n - 1) ELSE {0, 255, 256, n - 1}

\* The values a byte that holds old is changed to.
ChangedValues(old) == {(old + 1) % 256, (old + 128) % 256, (old + 255) % 256}

InitCodec ==
    /\ now = 1000
    /\ skew = 0
    /\ SyncIdle
    /\ UdpIdle
    /\ TcpIdle
    /\ DgramIdle
    /\ StatIdle
    /\ TputIdle
    /\ LatIdle
    /\ SeqIdle
    /\ DurIdle
    /\ c_pc = "start"
    /\ c_size \in CodecSizes
    /\ c_packet = <<>>
    /\ c_idx = 0
    /\ c_valid = FALSE

\* create_packet(c_size), and validate_packet on what it returns.
CodecCreate ==
    /\ c_pc = "start"
    /\ c_packet' = create_packet(c_size)
    /\ c_valid' = validate_packet(create_packet(c_size))
    /\ c_pc' = "created"
    /\ UNCHANGED <<clockVars, syncVars, udpVars, tcpVars, dgramVars, statVars,
                   tputVars, latVars, seqVars, durVars, c_size, c_idx>>

\* One payload byte of the packet is given another value, and
\* validate_packet is called on the result.
CodecChange ==
    /\ c_pc = "created"
    /\ \E i \in ChangedIndexes(c_size) :
         \E v \in ChangedValues(c_packet[PayloadOff + i + 1]) :
            LET pkt == Store(c_packet, PayloadOff + i, <<v>>)
            IN  /\ c_packet' = pkt
                /\ c_valid' = validate_packet(pkt)
                /\ c_idx' = i
    /\ c_pc' = "changed"
    /\ UNCHANGED <<clockVars, syncVars, udpVars, tcpVars, dgramVars, statVars,
                   tputVars, latVars, seqVars, durVars, c_size>>

NextCodec == CodecCreate \/ CodecChange

SpecCodec == InitCodec /\ [][NextCodec]_vars

\* C13: validate_packet accepts what create_packet returns for every size
\* from 64 to 8192, and rejects it once any one payload byte, at an index
\* from 0 to packet_size - sizeof(packet_t) - 1, holds another value.
C13_ValidateCreateAndAnyChange ==
    /\ c_pc = "created" => c_valid
    /\ c_pc = "changed" => ~c_valid

\* The last payload byte validate_packet looks at, in a packet of the
\* largest size, has been changed.
C13_Witness ==
    /\ c_pc = "changed"
    /\ c_size = MAX_PACKET_SIZE
    /\ c_idx = MAX_PACKET_SIZE - HeaderSize - 1
    /\ ~c_valid

(***************************************************************************)
(* run_udp_server on its own, with datagrams from any sender.              *)
(***************************************************************************)

\* How many datagrams the server receives in one run.
MaxDatagrams == 3

\* The addresses datagrams come from.
Senders == {"a", "b"}

\* A packet of the smallest size as a client sends it first.
FirstPacket == ClientPrepare(create_packet(MIN_PACKET_SIZE), 0, LE(1000, 8))

\* A packet as a client sends it second: client_recv still holds the time
\* at which the echo of the first was received.
SecondPacket ==
    ClientPrepare(Store(FirstPacket, OffClientRecv, LE(1500, 8)), 1,
                  LE(101500, 8))

\* The datagrams tried: a client's first and second packet; a packet of the
\* same size from another program, with a payload of its own; the header
\* alone of a client's packet, packet_size still MIN_PACKET_SIZE; and the
\* datagram of no bytes.
Datagrams ==
    { FirstPacket,
      SecondPacket,
      [k \in 1..MIN_PACKET_SIZE |->
          IF k <= PayloadOff THEN FirstPacket[k] ELSE 170],
      SubSeq(FirstPacket, 1, HeaderSize),
      <<>> }

InitUdpServer ==
    /\ now = 1000
    /\ skew = 0
    /\ SyncIdle
    /\ UdpIdle
    /\ TcpIdle
    /\ CodecIdle
    /\ StatIdle
    /\ TputIdle
    /\ LatIdle
    /\ SeqIdle
    /\ DurIdle
    /\ d_log = <<>>

\* One iteration of the loop of run_udp_server, lines 490-525, on a
\* datagram data from the address from: recvfrom stores its bytes at the
\* start of the buffer and the address in client_addr; with no byte received
\* the loop continues; otherwise both timestamps are stamped and packet_size
\* bytes of the buffer are sent to client_addr.
UdpServerDatagram ==
    /\ Len(d_log) < MaxDatagrams
    /\ \E from \in Senders, data \in Datagrams :
        LET got     == SrvWrite(s_buf, 0, data)
            t       == get_timestamp_usec(now + 1 + skew)
            stamped == ServerStamp(got, t, t)
            size    == PacketSizeOf(stamped)
        IN  IF Len(data) = 0
            THEN /\ d_log' = Append(d_log, [from |-> from, data |-> data,
                                            to |-> "none", echo |-> <<>>])
                 /\ UNCHANGED s_buf
            ELSE /\ size <= MAX_PACKET_SIZE
                 /\ s_buf' = stamped
                 /\ d_log' = Append(d_log,
                                    [from |-> from, data |-> data,
                                     to |-> from,
                                     echo |-> SrvRead(stamped, size)])
    /\ now' = now + 1
    /\ UNCHANGED <<skew, syncVars, tcpVars, codecVars, statVars, tputVars,
                   latVars, seqVars, durVars, udpOnly, cfg, faults>>

NextUdpServer == UdpServerDatagram

SpecUdpServer == InitUdpServer /\ [][NextUdpServer]_vars

\* An echo without what the server stamps: server_recv and server_send.
Unstamped(echo) ==
    IF Len(echo) >= OffServerSend + 8
    THEN Store(Store(echo, OffServerRecv, LE(0, 8)), OffServerSend, LE(0, 8))
    ELSE echo

\* C14: the datagram server keeps nothing from one datagram to the next.
\* Every echo goes to the address its datagram came from, and two datagrams
\* of the same bytes are answered with the same bytes, the two server
\* timestamps aside, whatever was received before them; also when the
\* datagram has fewer bytes than the packet_size in its header.
C14_EchoDependsOnDatagramAlone ==
    \A j \in 1..Len(d_log), k \in 1..Len(d_log) :
        /\ d_log[k].to \in {d_log[k].from, "none"}
        /\ d_log[j].data = d_log[k].data =>
               Unstamped(d_log[j].echo) = Unstamped(d_log[k].echo)

(***************************************************************************)
(* The statistics at the end of run_tcp_client and of run_udp_client       *)
(* (the same code in both).  The values of type double are kept as exact   *)
(* fractions <<numerator, denominator>>, the denominator positive.         *)
(***************************************************************************)

\* total_latency after the first k rounds of the loop of lines 697-707.
RECURSIVE TotalLatency(_, _)
TotalLatency(lat, k) ==
    IF k = 0 THEN Frac(0, 1)
    ELSE FracAdd(TotalLatency(lat, k - 1), Frac(lat[k], 1))

\* std_dev after the first k rounds of the loop of lines 713-715:
\* std_dev += pow(latencies[i] - avg_latency, 2).
RECURSIVE SquaresSum(_, _, _)
SquaresSum(lat, avg, k) ==
    IF k = 0 THEN Frac(0, 1)
    ELSE LET d == FracSub(Frac(lat[k], 1), avg)
         IN  FracAdd(SquaresSum(lat, avg, k - 1), FracMul(d, d))

\* A slip of line 716: the sum of squares divided by n - 1, the sample
\* standard deviation.
Variance_OfSample(lat) ==
    LET n   == Len(lat)
        avg == FracDivInt(TotalLatency(lat, n), n)
    IN  IF n = 1 THEN Frac(0, 1)
        ELSE FracDivInt(SquaresSum(lat, avg, n), n - 1)

\* std_dev / packets_received of line 716, the square of the jitter.
Variance(lat) ==
    LET n   == Len(lat)
        avg == FracDivInt(TotalLatency(lat, n), n)
    IN  FracDivInt(SquaresSum(lat, avg, n), n)

\* Line 720: 100.0 * (config->num_packets - packets_received)
\*           / config->num_packets.
PacketLoss(num_packets, received) ==
    Frac(100 * (num_packets - received), num_packets)

\* Lines 682-758: what the summary reports of packets_received samples.
\* With no sample only "No packets were successfully exchanged" is printed.
Summary(num_packets, lat) ==
    LET n == Len(lat)
    IN  IF n > 0
        THEN [printed     |-> "summary",
              received    |-> n,
              avg_latency |-> FracDivInt(TotalLatency(lat, n), n),
              jitter_sq   |-> Variance(lat),
              packet_loss |-> PacketLoss(num_packets, n)]
        ELSE [printed     |-> "no packets",
              received    |-> "none",
              avg_latency |-> "none",
              jitter_sq   |-> "none",
              packet_loss |-> "none"]

\* The largest num_packets of a run whose statistics are computed.
MaxStatPackets == 3

\* The one-way latencies a sample may have, in microseconds.
LatencyValues == {10, 20, 25, 30}

\* The sequences of at most n latencies.
LatenciesUpTo(n) ==
    UNION {[1..k -> LatencyValues] : k \in 0..n}

InitStats ==
    /\ now = 1000
    /\ skew = 0
    /\ SyncIdle
    /\ UdpIdle
    /\ TcpIdle
    /\ CodecIdle
    /\ DgramIdle
    /\ TputIdle
    /\ LatIdle
    /\ SeqIdle
    /\ DurIdle
    /\ st_pc = "start"
    /\ st_n \in 1..MaxStatPackets
    /\ st_size = MIN_PACKET_SIZE
    /\ st_lat \in LatenciesUpTo(st_n)
    /\ st_report = <<>>

\* The client leaves its loop with the samples st_lat and prints the
\* summary.
ClientSummary ==
    /\ st_pc = "start"
    /\ st_report' = Summary(st_n, st_lat)
    /\ st_pc' = "reported"
    /\ UNCHANGED <<clockVars, syncVars, udpVars, tcpVars, codecVars,
                   dgramVars, tputVars, latVars, seqVars, durVars, st_n,
                   st_size, st_lat>>

NextStats == ClientSummary

SpecStats == InitStats /\ [][NextStats]_vars

\* C17: at the end of every client run with num_packets >= 1 the client
\* reports packet_loss_pct = 100 * (num_packets - received) / num_packets,
\* received the number of recorded samples, for every received from 0 to
\* num_packets; with no sample received it reports 100.
C17_PacketLossReported ==
    st_pc = "reported" =>
        /\ st_report.printed = "summary"
        /\ st_report.packet_loss[1] * st_n =
               100 * (st_n - Len(st_lat)) * st_report.packet_loss[2]

\* The sum of the elements of the sequence s.
RECURSIVE SeqSum(_)
SeqSum(s) == IF s = <<>> THEN 0 ELSE Head(s) + SeqSum(Tail(s))

\* The orders in which the samples st_lat may have been recorded.
Reorderings(lat) ==
    {[k \in 1..Len(lat) |-> lat[p[k]]] :
        p \in {q \in [1..Len(lat) -> 1..Len(lat)] :
                 \A i, j \in 1..Len(lat) : i # j => q[i] # q[j]}}

\* C18: the reported jitter is the population standard deviation of the
\* recorded one-way latencies about their mean.  With n samples of sum S,
\* jitter^2 * n is the sum of the (latency - S/n)^2, that is jitter^2 * n^3
\* is the sum of the (n * latency - S)^2: the sum of squares is divided by
\* n, not by n - 1; and the same samples in any other order give the same
\* jitter.
C18_JitterIsPopulationDeviation ==
    (st_pc = "reported" /\ st_report.printed = "summary") =>
        LET n == Len(st_lat)
            S == SeqSum(st_lat)
            Q == SeqSum([k \in 1..n |->
                           (n * st_lat[k] - S) * (n * st_lat[k] - S)])
        IN  /\ st_report.jitter_sq[1] * n * n * n = Q * st_report.jitter_sq[2]
            /\ \A other \in Reorderings(st_lat) :
                  Summary(st_n, other).jitter_sq = st_report.jitter_sq

\* The samples 10, 20, 30 are reported with mean 20 and jitter^2 = 200/3.
C18_Witness ==
    /\ st_pc = "reported"
    /\ st_lat = <<10, 20, 30>>
    /\ st_report.avg_latency = <<20, 1>>
    /\ st_report.jitter_sq = <<200, 3>>

(***************************************************************************)
(* The numerator of throughput_bps (lines 731 and 972):                    *)
(* packets_received * config->packet_size * 8, a product of ints.          *)
(***************************************************************************)

\* 2^16: numbers beyond the range of int are kept as <<high, low>>, the
\* value high * 2^16 + low with 0 <= low < 2^16.
Limb == 65536

\* The mathematical product received * packet_size * 8 as <<high, low>>,
\* for 0 <= received < 2^31 and packet_size <= MAX_PACKET_SIZE.
ExactBits(received, packet_size) ==
    LET x == (received % Limb) * packet_size
    IN  <<(received \div Limb) * packet_size * 8 + (x \div MAX_PACKET_SIZE),
          (x % MAX_PACKET_SIZE) * 8>>

\* Whether <<high, low>> is a value of int.
FitsInt(w) == w[1] < Limb \div 2

\* The int with the low 32 bits of <<high, low>>, in two's complement.
WrapInt(w) ==
    LET h == w[1] % Limb
    IN  (IF h >= Limb \div 2 THEN h - Limb ELSE h) * Limb + w[2]

\* What packets_received * config->packet_size * 8 evaluates to.  An int
\* product beyond INT_MAX is undefined: the build wraps it to 32 bits, or,
\* compiled to trap on overflow, ends the program there.
ThroughputBits(received, packet_size) ==
    LET w == ExactBits(received, packet_size)
    IN  IF FitsInt(w)
        THEN {[outcome |-> "value", value |-> WrapInt(w)]}
        ELSE {[outcome |-> "value", value |-> WrapInt(w)],
              [outcome |-> "abort", value |-> 0]}

\* The values of config->num_packets tried: small ones, and those around
\* which the product leaves the range of int for the packet sizes tried.
TputPackets == {1, 2, 100, 32767, 32768, 33000, 262143, 262144, 300000}

\* The values of config->packet_size tried.
TputSizes == {MIN_PACKET_SIZE, 1024, MAX_PACKET_SIZE}

\* The values of packets_received tried for num_packets = n.
TputReceived(n) == {r \in {1, 2, n \div 2, n - 1, n} : r >= 1 /\ r <= n}

InitThroughput ==
    /\ now = 1000
    /\ skew = 0
    /\ SyncIdle
    /\ UdpIdle
    /\ TcpIdle
    /\ CodecIdle
    /\ DgramIdle
    /\ StatIdle
    /\ LatIdle
    /\ SeqIdle
    /\ DurIdle
    /\ tp_pc = "start"
    /\ tp_n \in TputPackets
    /\ tp_size \in TputSizes
    /\ tp_received \in TputReceived(tp_n)
    /\ tp_bits = 0

\* Line 731 (972): the numerator is computed.
ComputeThroughputBits ==
    /\ tp_pc = "start"
    /\ tp_bits' \in ThroughputBits(tp_received, tp_size)
    /\ tp_pc' = "computed"
    /\ UNCHANGED <<clockVars, syncVars, udpVars, tcpVars, codecVars,
                   dgramVars, statVars, latVars, seqVars, durVars, tp_n,
                   tp_received, tp_size>>

NextThroughput == ComputeThroughputBits

SpecThroughput == InitThroughput /\ [][NextThroughput]_vars

\* C19: the numerator of the throughput is the mathematical product
\* received * packet_size * 8, for every received from 1 to num_packets,
\* every packet_size from 64 to 8192 and every positive int num_packets:
\* the product does not wrap around.
C19_ThroughputBitsExact ==
    tp_pc = "computed" =>
        /\ tp_bits.outcome = "value"
        /\ tp_bits.value >= 0
        /\ <<tp_bits.value \div Limb, tp_bits.value % Limb>> =
               ExactBits(tp_received, tp_size)

(***************************************************************************)
(* The measurements taken from one echoed packet (lines 649-661 in         *)
(* run_tcp_client, 890-902 in run_udp_client).                             *)
(***************************************************************************)

\* A double of 2^31 or more: its value is not followed.
Beyond == <<0, 0>>

\* The uint64_t u converted to double.
ToDouble(u) ==
    IF u[4] < 128 /\ \A k \in 5..8 : u[k] = 0
    THEN Frac(Val(SubSeq(u, 1, 4)), 1)
    ELSE Beyond

\* x - y in double.
DoubleSub(x, y) ==
    IF x = Beyond \/ y = Beyond THEN Beyond ELSE FracSub(x, y)

\* x / 2.0
DoubleHalf(x) == IF x = Beyond THEN Beyond ELSE FracDivInt(x, 2)

\* A slip of line 660: the time the server took is not subtracted.
Measurements_NoServerTime(time_sync, clock_offset, pkt) ==
    LET rtt == ToDouble(U64Sub(Field(pkt, OffClientRecv, 8),
                               Field(pkt, OffClientSend, 8)))
    IN  [one_way_latency   |-> DoubleHalf(rtt),
         rtt               |-> rtt,
         server_processing |-> ToDouble(U64Sub(Field(pkt, OffServerSend, 8),
                                               Field(pkt, OffServerRecv, 8)))]

\* Lines 649-661: server_processing, rtt and one_way_latency of the packet
\* pkt.  The differences are taken in uint64_t and then converted.
Measurements(time_sync, clock_offset, pkt) ==
    LET server_processing ==
            ToDouble(U64Sub(Field(pkt, OffServerSend, 8),
                            Field(pkt, OffServerRecv, 8)))
        rtt ==
            ToDouble(U64Sub(Field(pkt, OffClientRecv, 8),
                            Field(pkt, OffClientSend, 8)))
    IN  [one_way_latency   |->
             IF time_sync
             THEN ToDouble(U64Sub(U64Sub(Field(pkt, OffServerRecv, 8),
                                         clock_offset),
                                  Field(pkt, OffClientSend, 8)))
             ELSE DoubleHalf(DoubleSub(rtt, server_processing)),
         rtt               |-> rtt,
         server_processing |-> server_processing]

\* A reading of the client's clock: microseconds since 1970, in 2026.
EpochUs == <<0, 0, 0, 0, 64, 93, 6, 0>>

\* The time at which the client sends, in microseconds after EpochUs.
SendTimes == {0, 1000, 100000}

\* The round-trip times tried, in microseconds.
RttValues == {1, 2, 117, 10000, 1000001}

\* The times the server takes between its two stamps, in microseconds.
ProcValues == {0, 1, 40}

\* By how much the server's clock is ahead of the client's, in microseconds.
LatSkews == {0, 3000000}

\* By how much the clock_offset that synchronize_clocks returned is above
\* the true difference of the clocks, in microseconds.
OffsetErrors == {0, 500, 0 - 500}

\* The packet of the client's first iteration, echoed and stamped.
EchoedPacket(send, rtt, proc, sk) ==
    LET t(us) == U64Add(EpochUs, LE(us, 8))
        sent  == ClientPrepare(create_packet(MIN_PACKET_SIZE), 0, t(send))
        back  == ServerStamp(sent, t(send + sk + (rtt - proc) \div 2),
                             t(send + sk + (rtt - proc) \div 2 + proc))
    IN  Store(back, OffClientRecv, t(send + rtt))

InitLatency ==
    /\ now = 1000
    /\ skew = 0
    /\ SyncIdle
    /\ UdpIdle
    /\ TcpIdle
    /\ CodecIdle
    /\ DgramIdle
    /\ StatIdle
    /\ TputIdle
    /\ SeqIdle
    /\ DurIdle
    /\ lt_pc = "start"
    /\ lt_sync \in BOOLEAN
    /\ \E send \in SendTimes, rtt \in RttValues, proc \in ProcValues,
          sk \in LatSkews, err \in OffsetErrors :
          /\ proc <= rtt
          /\ ~lt_sync => err = 0
          /\ lt_offset = (IF lt_sync THEN I64(sk + err) ELSE I64(0))
          /\ lt_packet = EchoedPacket(send, rtt, proc, sk)
    /\ lt_sample = <<>>

\* Lines 649-666: the measurements of the packet are taken and stored.
RecordSample ==
    /\ lt_pc = "start"
    /\ lt_sample' = Measurements(lt_sync, lt_offset, lt_packet)
    /\ lt_pc' = "recorded"
    /\ UNCHANGED <<clockVars, syncVars, udpVars, tcpVars, codecVars,
                   dgramVars, statVars, tputVars, seqVars, durVars, lt_sync,
                   lt_offset, lt_packet>>

NextLatency == RecordSample

SpecLatency == InitLatency /\ [][NextLatency]_vars

\* The microseconds from the stamp at offset from to the stamp at offset
\* to of the packet, both of the same clock and the same 2^32 microseconds.
Elapsed(pkt, from, to) ==
    Val(Field(pkt, to, 4)) - Val(Field(pkt, from, 4))

\* C20: with clock synchronization disabled every recorded sample has
\* 2 * one_way_latency = rtt - server_processing, where rtt is client_recv
\* - client_send and server_processing is server_send - server_recv; a
\* packet echoed with no time spent in the server has one_way_latency =
\* rtt / 2.
C20_HalfOfRttLessProcessing ==
    (lt_pc = "recorded" /\ ~lt_sync) =>
        LET rtt  == Elapsed(lt_packet, OffClientSend, OffClientRecv)
            proc == Elapsed(lt_packet, OffServerRecv, OffServerSend)
            owl  == lt_sample.one_way_latency
        IN  /\ owl # Beyond
            /\ 2 * owl[1] = (rtt - proc) * owl[2]
            /\ lt_sample.rtt = <<rtt, 1>>
            /\ lt_sample.server_processing = <<proc, 1>>
            /\ proc = 0 => owl = Frac(rtt, 2)

\* A sample without clock synchronization of a packet the server, its
\* clock three seconds ahead, echoed with no time spent: rtt 117 and
\* one_way_latency 58.5 microseconds.
C20_Witness ==
    /\ lt_pc = "recorded"
    /\ ~lt_sync
    /\ Elapsed(lt_packet, OffServerRecv, OffServerSend) = 0
    /\ Elapsed(lt_packet, OffClientSend, OffServerRecv) > 1000000
    /\ lt_sample.rtt = <<117, 1>>
    /\ lt_sample.one_way_latency = <<117, 2>>

\* The value of the int64_t a (of a magnitude below 2^31).
I64Val(a) ==
    IF a[8] >= 128
    THEN 0 - Val(Field(U64Sub(LE(0, 8), a), 0, 4))
    ELSE Val(Field(a, 0, 4))

\* C21: with clock synchronization enabled the one-way latency recorded
\* for a sample is the signed value (server_recv - clock_offset) -
\* client_send, also where the corrected server time is earlier than
\* client_send and that value is negative.
C21_DirectLatencyIsSigned ==
    (lt_pc = "recorded" /\ lt_sync) =>
        lt_sample.one_way_latency =
            <<Elapsed(lt_packet, OffClientSend, OffServerRecv)
                - I64Val(lt_offset), 1>>

(***************************************************************************)
(* The stream exchange: sends, failures, pacing and samples.               *)
(***************************************************************************)

\* C22: a send on the stream pushes all packet_size bytes of the packet:
\* when a client that sent goes on to wait for the echo, its stream to the
\* server has grown by the packet_size of the packet it prepared.
C22_SendPushesWholePacket ==
    [][\A c \in clients :
          (t_pc[c] = "send" /\ t_pc'[c] = "recv_hdr" /\ c2s'[c] # c2s[c])
          => Len(c2s'[c].data) =
                 Len(c2s[c].data) + PacketSizeOf(t_packet'[c])]_vars

\* C23: a send or a receive that fails in an iteration of the stream client
\* ends its loop: once a receive has returned no bytes or an error the
\* client is at its summary, with the samples taken before, and no failed
\* send ends the process without one.
C23_FailureEndsLoop ==
    \A c \in clients :
        /\ t_zero_at[c] # 0 => t_pc[c] = "summary"
        /\ t_pc[c] # "killed"

\* C24: every iteration of the datagram client that has sent, also one that
\* ends without a sample (timeout, invalid echo, echo out of sequence), is
\* followed by the pacing sleep when another send is to come: on top of the
\* time its receive took, the inter-packet delay passes before that send.
C24_PacingAfterEveryIteration ==
    [][(u_pc = "recv" /\ u_pc' = "send" /\ u_i' < cfg.num_packets /\ running)
       => now' >= now + (IF u_rxq = <<>> THEN RecvTimeoutUs ELSE 1)
                      + ActualDelayUs(cfg)]_vars

\* The iterations of the datagram client that stored a sample.
Sampled == {i \in Iterations : outcome[i] = "sample"}

\* The seq fields of the samples in samples, in the order stored.
SeqsOf(samples) == [j \in 1..Len(samples) |-> samples[j].seq]

\* Whether the 64-bit numbers of seqs increase strictly.
Increasing(seqs) ==
    \A j \in 1..Len(seqs) : \A k \in 1..Len(seqs) :
        j < k => U64Lt(seqs[j], seqs[k])

\* The samples of every stream client are stored for packets that passed
\* validate_packet, and their seq numbers increase strictly.
StreamSamplesInSendOrder ==
    /\ [](\A c \in clients : Increasing(SeqsOf(t_samples[c])))
    /\ [][\A c \in clients :
            t_samples'[c] # t_samples[c]
            => CheckPacket(t_packet'[c]) = "valid"]_vars

WholePacket(data) ==
    Len(data) >= HeaderSize /\ PacketSizeOf(data) = Len(data)

Echoed(c) ==
    SubSeq(s2c'[c].data, Len(s2c'[c].data) - (tx_to'[c] - tx_to[c]) + 1,
           Len(s2c'[c].data))

\* The stream server likewise, in a run without short reads, signals or
\* broken connections: what it sends to a client is the packet that client
\* has sent and waits for, save for the two server timestamps.
StreamServerStampsAndEchoes ==
    [][\A c \in clients :
          (faults' = 0 /\ tx_to'[c] # tx_to[c]) =>
              /\ t_pc[c] = "recv_hdr"
              /\ Unstamped(Echoed(c)) =
                     Unstamped(SubSeq(t_packet[c], 1,
                                      PacketSizeOf(t_packet[c])))
              /\ Field(Echoed(c), OffServerRecv, 8) # LE(0, 8)
              /\ ~U64Lt(Field(Echoed(c), OffServerSend, 8),
                        Field(Echoed(c), OffServerRecv, 8))]_vars

(***************************************************************************)
(* run_tcp_server alone, with any program at the other end of a            *)
(* connection: the peers write what they like and disconnect when they     *)
(* like.                                                                   *)
(***************************************************************************)

\* How many times one peer writes to its connection.
MaxPeerWrites == 2

\* A packet of MIN_PACKET_SIZE bytes whose header declares more than the
\* server's buffer holds.
OversizePacket ==
    Store(FirstPacket, OffPacketSize, LE(MAX_PACKET_SIZE + MIN_PACKET_SIZE, 4))

\* What a peer writes in one go: a client's data packet, the synchronization
\* packet of round 0, or a packet that declares a packet_size beyond the
\* buffer.
PeerWrites == {FirstPacket, SyncPacket(0, LE(1000, 8)), OversizePacket}

InitStreamServer ==
    /\ now = 1000
    /\ skew = 0
    /\ SyncIdle
    /\ UdpClientIdle
    /\ CodecIdle
    /\ DgramIdle
    /\ StatIdle
    /\ TputIdle
    /\ LatIdle
    /\ SeqIdle
    /\ DurIdle
    /\ cfg \in {c \in TcpConfigs : c.num_packets = 1}
    /\ s_buf = <<>>
    /\ faults = 0
    /\ clients = ClientIds
    /\ t_pc = [c \in clients |-> "peer"]
    /\ t_i = [c \in clients |-> 0]
    /\ t_packet = [c \in clients |-> <<>>]
    /\ t_got = [c \in clients |-> 0]
    /\ t_running = [c \in clients |-> TRUE]
    /\ t_samples = [c \in clients |-> <<>>]
    /\ c2s = [c \in clients |-> EmptyStream]
    /\ s2c = [c \in clients |-> EmptyStream]
    /\ conn = [c \in clients |-> "queued"]
    /\ backlog = <<1, 2>>
    /\ s_pc = "accept_head"
    /\ s_running = TRUE
    /\ s_listen = "open"
    /\ s_closes = 0
    /\ s_cur = 0
    /\ s_got = 0
    /\ rx_from = [c \in clients |-> 0]
    /\ tx_to = [c \in clients |-> 0]
    /\ t_rx = [c \in clients |-> 0]
    /\ t_zero_at = [c \in clients |-> 0]
    /\ s_zero_tx = [c \in clients |-> 0 - 1]

\* The peer at the other end of connection c writes data; t_i counts its
\* writes.
PeerWrite(c) ==
    /\ c \in clients
    /\ t_pc[c] = "peer"
    /\ conn[c] \in {"queued", "accepted"}
    /\ ~c2s[c].eof
    /\ t_i[c] < MaxPeerWrites
    /\ \E data \in PeerWrites :
          c2s' = [c2s EXCEPT ![c].data = @ \o data]
    /\ t_i' = [t_i EXCEPT ![c] = @ + 1]
    /\ UNCHANGED <<now, tcpFixed, t_pc, t_packet, t_got, t_running,
                   t_samples, s2c, conn, backlog, s_pc, s_running, s_listen,
                   s_closes, s_cur, s_got, s_buf, rx_from, tx_to, t_rx,
                   t_zero_at, s_zero_tx, faults>>

\* The peer at the other end of connection c closes it.
PeerDisconnect(c) ==
    /\ c \in clients
    /\ t_pc[c] = "peer"
    /\ conn[c] \in {"queued", "accepted"}
    /\ ~c2s[c].eof
    /\ c2s' = [c2s EXCEPT ![c].eof = TRUE]
    /\ UNCHANGED <<now, tcpFixed, t_pc, t_i, t_packet, t_got, t_running,
                   t_samples, s2c, conn, backlog, s_pc, s_running, s_listen,
                   s_closes, s_cur, s_got, s_buf, rx_from, tx_to, t_rx,
                   t_zero_at, s_zero_tx, faults>>

\* The server is never told to stop.
NextStreamServer ==
    \/ \E c \in ClientIds : PeerWrite(c)
    \/ \E c \in ClientIds : PeerDisconnect(c)
    \/ TcpServerLoopHead
    \/ TcpServerAccept
    \/ TcpServerInnerHead
    \/ TcpServerRecvHdr
    \/ TcpServerRecvRest
    \/ TcpServerClose

SpecStreamServer == InitStreamServer /\ [][NextStreamServer]_vars

\* C27: the stream server goes from Connected back to Listening.  While it
\* has not been told to stop, a server whose connected peer is gone is in
\* its packet loop or closing that connection, on its way to the next
\* accept; it is never left where it closes nothing and accepts nobody.
C27_ServerReturnsToListening ==
    \A c \in clients :
        (conn[c] = "accepted" /\ ClientGone(c) /\ s_running)
        => s_pc \in {"inner_head", "in_recv_hdr", "in_recv_rest", "closing"}

(***************************************************************************)
(* What the client puts on the wire.                                       *)
(***************************************************************************)

\* C28: every data packet the datagram client has put on the wire carries
\* client_send as its only timestamp: server_recv, server_send and
\* client_recv are zero, in every iteration.
C28_OnlyClientSendStamped ==
    \A r \in u_req :
        /\ Field(r.bytes, OffClientSend, 8) # LE(0, 8)
        /\ Field(r.bytes, OffServerRecv, 8) = LE(0, 8)
        /\ Field(r.bytes, OffServerSend, 8) = LE(0, 8)
        /\ Field(r.bytes, OffClientRecv, 8) = LE(0, 8)

(***************************************************************************)
(* The sequence numbers of the data packets of a client, for the values    *)
(* num_packets can take, against the stream server's test for a            *)
(* synchronization packet.                                                 *)
(***************************************************************************)

\* The largest int.
INT_MAX == 2147483647

\* How far from the start and from the end of the loop its iterations are
\* looked at.
MaxSeqBack == 2

\* The values of config->num_packets tried, as atoi returns them: none or
\* fewer, a few, and up to the largest int.
NumPackets ==
    {0 - 1, 0, 1, 2, 3, 10, 100, 1000, 65536, INT_MAX - 21, INT_MAX - 20,
     INT_MAX - 1, INT_MAX}

\* The values of i looked at in a loop of n iterations: the first ones, the
\* middle, the last ones, and n, where the loop ends.
LoopPoints(n) ==
    {i \in (0..MaxSeqBack) \cup {n \div 2}
              \cup {n - k : k \in 0..MaxSeqBack} :
        0 <= i /\ i <= n}

InitSeq ==
    /\ now = 1000
    /\ skew = 0
    /\ SyncIdle
    /\ UdpIdle
    /\ TcpIdle
    /\ CodecIdle
    /\ DgramIdle
    /\ StatIdle
    /\ TputIdle
    /\ LatIdle
    /\ DurIdle
    /\ sq_pc = "loop"
    /\ sq_n \in NumPackets
    /\ sq_i \in LoopPoints(sq_n) \cup {0}
    /\ sq_packet = create_packet(MIN_PACKET_SIZE)
    /\ sq_sync = FALSE

\* Lines 612-620 and 401-409: the packet of iteration i is prepared and
\* sent, and the stream server tests its seq_num for a synchronization tag.
SeqPrepare ==
    /\ sq_pc = "loop"
    /\ sq_i < sq_n
    /\ LET pkt == ClientPrepare(sq_packet, sq_i, get_timestamp_usec(now))
       IN  /\ sq_packet' = pkt
           /\ sq_sync' = IsSyncTag(Field(pkt, OffSeqNum, 8))
    /\ sq_pc' = "prepared"
    /\ UNCHANGED <<clockVars, syncVars, udpVars, tcpVars, codecVars,
                   dgramVars, statVars, tputVars, latVars, durVars, sq_n,
                   sq_i>>

\* Line 612: the loop condition fails.
SeqExit ==
    /\ sq_pc = "loop"
    /\ sq_i >= sq_n
    /\ sq_pc' = "done"
    /\ UNCHANGED <<clockVars, syncVars, udpVars, tcpVars, codecVars,
                   dgramVars, statVars, tputVars, latVars, durVars, sq_n,
                   sq_i,
                   sq_packet, sq_sync>>

NextSeq == SeqPrepare \/ SeqExit

SpecSeq == InitSeq /\ [][NextSeq]_vars

\* C29: no data packet collides with a synchronization tag: for every
\* num_packets and every iteration i of the client's loop, the seq_num
\* i + 1 of the packet it sends is below the range the stream server takes
\* for synchronization packets.
C29_DataSeqNeverSyncTag ==
    sq_pc = "prepared" =>
        /\ Field(sq_packet, OffSeqNum, 8) = LE(sq_i + 1, 8)
        /\ ~sq_sync

\* The last packet of the longest run: num_packets and seq_num are the
\* largest int.
C29_Witness ==
    /\ sq_pc = "prepared"
    /\ sq_n = INT_MAX
    /\ Field(sq_packet, OffSeqNum, 8) = <<255, 255, 255, 127, 0, 0, 0, 0>>

\* C30: whatever packet_size the header of a peer declares, a receiver
\* stores and sends no more bytes than its packet buffer holds: neither the
\* stream server nor a stream client is ever past a recv, a validation or a
\* send that went beyond the buffer.
C30_ReceiverStaysInBuffer ==
    /\ s_pc # "undefined"
    /\ \A c \in clients : t_pc[c] # "undefined"

(***************************************************************************)
(* The duration of the test in the summary of run_tcp_client and of        *)
(* run_udp_client (the same code in both), as an exact fraction of         *)
(* seconds.                                                                *)
(***************************************************************************)

\* The most samples a summary is computed of.
MaxDurSamples == 3

\* The values of config->rate_pps tried: unset, and from one packet a second
\* to more than a million.
DurRates == {0, 1, 10, 1000000, 2000000}

\* The values of config->delay_ms tried.
DurDelays == {0, 1, 100}

\* The round-trip times recorded, in microseconds.
DurRtts == {100, 1000, 200000}

\* The sequences of 1 to n recorded round-trip times.
RttsUpTo(n) == UNION {[1..k -> DurRtts] : k \in 1..n}

\* test_duration_sec of lines 723-729, for the recorded rtts and
\* actual_delay_us: the sum of two quotients by 1000000.0, taken over their
\* common denominator.  (Two integers of microseconds that differ have
\* quotients that differ as doubles, so the sign of the sum is that of the
\* exact value.)
TestDurationSec(rtts, actual_delay_us) ==
    IF Len(rtts) > 1
    THEN Frac((rtts[Len(rtts)] - rtts[1]) + actual_delay_us, 1000000)
    ELSE Frac(actual_delay_us, 1000000)

InitDuration ==
    /\ now = 1000
    /\ skew = 0
    /\ SyncIdle
    /\ UdpIdle
    /\ TcpIdle
    /\ CodecIdle
    /\ DgramIdle
    /\ StatIdle
    /\ TputIdle
    /\ LatIdle
    /\ SeqIdle
    /\ du_pc = "start"
    /\ du_cfg \in [rate_pps : DurRates, delay_ms : DurDelays]
    /\ du_rtts \in RttsUpTo(MaxDurSamples)
    /\ du_duration = <<>>

\* Lines 603-609 and 722-729: the pacing delay and the duration of the
\* test, with at least one sample recorded.
ComputeDuration ==
    /\ du_pc = "start"
    /\ Len(du_rtts) > 0
    /\ du_duration' = TestDurationSec(du_rtts, ActualDelayUs(du_cfg))
    /\ du_pc' = "computed"
    /\ UNCHANGED <<clockVars, syncVars, udpVars, tcpVars, codecVars,
                   dgramVars, statVars, tputVars, latVars, seqVars, du_cfg,
                   du_rtts>>

NextDuration == ComputeDuration

SpecDuration == InitDuration /\ [][NextDuration]_vars

\* C31: whenever the summary is computed of at least one sample,
\* test_duration_sec, by which the throughput is divided, is strictly
\* positive, whatever the recorded round-trip times, rate_pps and delay_ms.
C31_TestDurationPositive ==
    du_pc = "computed" => du_duration[1] > 0

(***************************************************************************)
(* The listening socket of the server.                                     *)
(***************************************************************************)

\* C32: over a run of the stream server, with the stop signal at any point
\* or none, close() is called on the listening socket at most once, and
\* exactly once by the time the server has left run_tcp_server.
C32_ListeningSocketClosedOnce ==
    /\ s_closes <= 1
    /\ s_pc = "done" => s_closes = 1

====
